---- MODULE Spec2Model ----
(***************************************************************************)
(* The client-side transaction and state-machine runtime of fedimint:      *)
(* the operation log, the executor's active and inactive state sets and    *)
(* the primary module's funds, all kept in one key-value database with     *)
(* optimistic transactions, and the operations of ClientContext,           *)
(* DummyClientModule and GatewayClientModuleV2 that read and write them;   *)
(* and the server's config generation API, through which the guardians of  *)
(* a federation set up their configuration before consensus starts.        *)
(***************************************************************************)
EXTENDS Integers, Sequences, FiniteSets, TLC

VARIABLES
    oplog,      \* committed operation log: operation id -> entry or NoEntry
    active,     \* committed active states of the executor
    inactive,   \* committed inactive states of the executor
    funds,      \* committed DummyClientFundsKeyV1 of the primary module
    tx_fee,     \* DummyClientConfig.tx_fee of the primary module
    calls,      \* one in-flight or finished call per caller
    cf,         \* an isolated call of create_final_inputs_and_outputs
    exec,       \* the executor's process: its awaits, its notifier
    ctx,        \* a call on a ClientContext that writes nothing
    config_gen  \* the guardians' ConfigGenApi: states, calls and tasks

vars == <<oplog, active, inactive, funds, tx_fee, calls, cf, exec, ctx,
          config_gen>>

(***************************************************************************)
(* Bounds of the model.                                                    *)
(***************************************************************************)
MaxOps == 2
MaxProcs == 2
MaxFunds == 2
MaxAmt == 2
MaxFee == 1

Ops == 1 .. MaxOps
Procs == 1 .. MaxProcs
Payloads == 1 .. MaxOps
Amounts == 0 .. MaxAmt

(***************************************************************************)
(* Operation log entries and state-machine states.                         *)
(***************************************************************************)
\* An entry: the operation type its writer passed, which is the module kind
\* get_operation compares, the call that wrote it and its caller.
NoEntry == [kind |-> "none", type |-> "none", by |-> 0]

OperationLogEntry(kind, type, by) == [kind |-> kind, type |-> type, by |-> by]

\* LightningCommonInit::KIND and DummyCommonInit::KIND.
LightningKind == "lnv2"

DummyKind == "dummy"

ModuleKinds == {LightningKind, DummyKind}

\* A state of a state machine: its operation id, its kind, the transaction
\* (or caller) it was generated for and how far it has progressed.
DynState(op, kind, tx, stage) ==
    [op |-> op, kind |-> kind, tx |-> tx, stage |-> stage]

LastStage(kind) == IF kind = "Complete" THEN 2 ELSE 1

IsTerminal(s) == s.stage >= LastStage(s.kind)

Successor(s) == [s EXCEPT !.stage = @ + 1]

\* The committed database as one value: what a transaction reads.
Database == [oplog |-> oplog, active |-> active, inactive |-> inactive,
             funds |-> funds]

\* What a transaction remembers of its snapshot: the values of the keys it
\* read, the log row of its operation id and the funds.
Snapshot(op) == [log |-> oplog[op], funds |-> funds]

NoSnapshot == [log |-> NoEntry, funds |-> 0]

NoWrites == [log |-> NoEntry, sms |-> {}, funds |-> -1]

(***************************************************************************)
(* DummyClientModule: fees and create_final_inputs_and_outputs.            *)
(***************************************************************************)
input_fee(fee) == fee

output_fee(fee) == fee

\* Mutant: the deficit taken to be the whole output amount.
missing_input_amount_whole_output(input_amount, output_amount) ==
    output_amount

missing_input_amount(input_amount, output_amount) ==
    output_amount - input_amount

missing_output_amount(input_amount, output_amount) ==
    input_amount - output_amount

\* Mutant: funds equal to the deficit rejected as well.
InsufficientFundsOrEqual(our_funds, missing) == our_funds <= missing

\* Mutant: a deficit one above the funds accepted.
InsufficientFundsOffByOne(our_funds, missing) == our_funds + 1 < missing

InsufficientFunds(our_funds, missing) == our_funds < missing

\* The result: err (insufficient funds), the amounts of the inputs and of the
\* outputs returned, and the value written to the funds key (-1: no write).
create_final_inputs_and_outputs(our_funds, input_amount, output_amount) ==
    IF input_amount < output_amount
    THEN LET missing == missing_input_amount(input_amount, output_amount) IN
         IF InsufficientFunds(our_funds, missing)
         THEN [err |-> TRUE, inputs |-> <<>>, outputs |-> <<>>, updated |-> -1]
         ELSE [err |-> FALSE, inputs |-> <<missing>>, outputs |-> <<>>,
               updated |-> our_funds - missing]
    ELSE IF input_amount = output_amount
    THEN [err |-> FALSE, inputs |-> <<>>, outputs |-> <<>>, updated |-> -1]
    ELSE [err |-> FALSE, inputs |-> <<>>,
          outputs |-> <<missing_output_amount(input_amount, output_amount)>>,
          updated |-> -1]

RECURSIVE SumSeq(_)
SumSeq(s) == IF s = <<>> THEN 0 ELSE Head(s) + SumSeq(Tail(s))

\* The state machines the primary module's inputs and outputs generate.
PrimaryStates(r, op, txid) ==
    {DynState(op, "DummyInput", txid, 0) : i \in DOMAIN r.inputs}
        \cup {DynState(op, "DummyOutput", txid, 0) : i \in DOMAIN r.outputs}

(***************************************************************************)
(* Operation log, executor and database, as the callers use them.          *)
(***************************************************************************)
operation_exists_dbtx(db, op) == db.oplog[op] # NoEntry

\* add_state_machines_dbtx accepts a batch when none of its states is
\* already in the active or the inactive set.
StatesAreNew(db, states) ==
    \A s \in states : s \notin db.active /\ s \notin db.inactive

\* Optimistic concurrency: a commit succeeds when no key the transaction
\* read or wrote has changed since its snapshot. The states a transaction
\* adds were in neither set at its snapshot.
TouchesFunds(c) ==
    \/ c.kind \in {"relay_incoming_htlc", "relay_direct_swap", "dummy_tx"}
          /\ c.input_amount < c.output_amount
    \/ c.kind = "add_funds"

TouchesLog(c) == c.kind \notin {"add_state_machines", "add_funds"}

\* Mutant: a commit never detects a conflict.
CommitAlways(c) == TRUE

CommitSucceeds(c) ==
    /\ TouchesLog(c) => c.snap.log = oplog[c.op]
    /\ TouchesFunds(c) => c.snap.funds = funds
    /\ \A s \in c.w.sms : s \notin active /\ s \notin inactive

ApplyWrites(c) ==
    /\ oplog' = IF c.w.log # NoEntry THEN [oplog EXCEPT ![c.op] = c.w.log]
                ELSE oplog
    /\ active' = active \cup c.w.sms
    /\ funds' = IF c.w.funds >= 0 THEN c.w.funds ELSE funds
    /\ UNCHANGED inactive

DbUnchanged == UNCHANGED <<oplog, active, inactive, funds>>

(***************************************************************************)
(* Calls.                                                                  *)
(***************************************************************************)
IdleCall == [pc |-> "idle", kind |-> "none", op |-> 1, payload |-> 0,
             sms |-> {}, input_amount |-> 0, output_amount |-> 0,
             snap |-> NoSnapshot, w |-> NoWrites, res |-> "none",
             fin_in |-> 0, fin_out |-> 0, max_attempts |-> 0,
             attempts |-> 0, wrap |-> "none", value |-> -1,
             error |-> "none"]

Finish(c, res) == [c EXCEPT !.pc = "done", !.res = res, !.snap = NoSnapshot,
                              !.w = NoWrites]

\* Mutant: no operation_exists_dbtx check before the writes.
ManualStartBodyNoCheck(p, op, sms) ==
    LET c == [IdleCall EXCEPT !.kind = "manual_operation_start", !.op = op,
                              !.sms = sms] IN
    IF ~StatesAreNew(Database, sms)
    THEN Finish(c, "PanicStateMachineInvalid")
    ELSE [c EXCEPT !.pc = "manual_commit", !.snap = Snapshot(op),
                   !.w = [log |-> OperationLogEntry(LightningKind, "manual",
                                                    p),
                          sms |-> sms, funds |-> -1]]

\* Mutant: the state machines are left out of the transaction that writes
\* the log entry.
ManualStartBodyNoSeeds(p, op, sms) ==
    LET c == [IdleCall EXCEPT !.kind = "manual_operation_start", !.op = op,
                              !.sms = sms] IN
    IF operation_exists_dbtx(Database, op)
    THEN Finish(c, "OperationExists")
    ELSE IF ~StatesAreNew(Database, sms)
    THEN Finish(c, "PanicStateMachineInvalid")
    ELSE [c EXCEPT !.pc = "manual_commit", !.snap = Snapshot(op),
                   !.w = [log |-> OperationLogEntry(LightningKind, "manual",
                                                    p),
                          sms |-> {}, funds |-> -1]]

\* ClientContext::manual_operation_start up to its commit: begin a
\* transaction, bail if the operation exists, write the log entry and the
\* state machines into the transaction.
ManualStartBody(p, op, sms) ==
    LET c == [IdleCall EXCEPT !.kind = "manual_operation_start", !.op = op,
                              !.sms = sms] IN
    IF operation_exists_dbtx(Database, op)
    THEN Finish(c, "OperationExists")
    ELSE IF ~StatesAreNew(Database, sms)
    THEN Finish(c, "PanicStateMachineInvalid")
    ELSE [c EXCEPT !.pc = "manual_commit", !.snap = Snapshot(op),
                   !.w = [log |-> OperationLogEntry(LightningKind, "manual",
                                                    p),
                          sms |-> sms, funds |-> -1]]

ManualSeeds(p, op) ==
    {{}, {DynState(op, "Send", p, 0)}, {DynState(op, "Send", 0, 0)}}

manual_operation_start(p) ==
    /\ calls[p].pc = "idle"
    /\ \E op \in Ops : \E sms \in ManualSeeds(p, op) :
          calls' = [calls EXCEPT ![p] = ManualStartBody(p, op, sms)]
    /\ DbUnchanged
    /\ UNCHANGED <<tx_fee, config_gen, cf, exec, ctx>>

\* dbtx.commit_tx_result(), a failure mapped to "already exists".
manual_operation_start_commit(p) ==
    /\ calls[p].pc = "manual_commit"
    /\ IF CommitSucceeds(calls[p])
       THEN /\ ApplyWrites(calls[p])
            /\ calls' = [calls EXCEPT ![p] = Finish(@, "Ok")]
       ELSE /\ DbUnchanged
            /\ calls' = [calls EXCEPT ![p] = Finish(@, "OperationExists")]
    /\ UNCHANGED <<tx_fee, config_gen, cf, exec, ctx>>

(***************************************************************************)
(* finalize_and_submit_transaction and its callers.                        *)
(***************************************************************************)
RelayKinds == {"relay_incoming_htlc", "relay_direct_swap"}

FinalizeKinds == RelayKinds \cup {"dummy_tx"}

\* OperationId::from_encodable(&payload): the id is the payload's hash.
OperationIdFromEncodable(payload) == payload

\* payload.contract.commitment.amount together with the output's fee.
PayloadAmount(payload) == ((payload - 1) % MaxAmt) + 1

\* The state machines the callers' outputs generate once the txid is known.
BuilderStates(kind, op, txid) ==
    IF kind = "relay_incoming_htlc"
    THEN {DynState(op, "Receive", txid, 0), DynState(op, "Complete", txid, 0)}
    ELSE IF kind = "relay_direct_swap"
    THEN {DynState(op, "Receive", txid, 0)}
    ELSE {}

TxSubmissionState(op, txid) == DynState(op, "TxSubmission", txid, 0)

\* The operation type the callers pass: the kind of their module.
OperationType(kind) == IF kind = "dummy_tx" THEN DummyKind ELSE LightningKind

\* Mutant: the operation id depends on which relay derived it, not on the
\* payload alone.
RelayCallIdPerKind(kind, payload) ==
    [IdleCall EXCEPT !.kind = kind, !.payload = payload,
                     !.op = IF kind = "relay_direct_swap"
                            THEN (payload % MaxOps) + 1
                            ELSE OperationIdFromEncodable(payload),
                     !.input_amount = 0,
                     !.output_amount = PayloadAmount(payload)]

\* The call a relay makes: one output of the contract's amount, under the
\* operation id derived from the payload.
RelayCall(kind, payload) ==
    [IdleCall EXCEPT !.kind = kind, !.payload = payload,
                     !.op = OperationIdFromEncodable(payload),
                     !.input_amount = 0,
                     !.output_amount = PayloadAmount(payload)]

\* relay_incoming_htlc / relay_direct_swap up to finalize_and_submit: the
\* operation_exists gate, read outside any transaction.
RelayGate(c) ==
    IF operation_exists_dbtx(Database, c.op)
    THEN Finish(c, "GateSkipped")
    ELSE [c EXCEPT !.pc = "finalize"]

relay_incoming_htlc(p) ==
    /\ calls[p].pc = "idle"
    /\ \E payload \in Payloads :
          calls' = [calls EXCEPT ![p] =
                        RelayGate(RelayCall("relay_incoming_htlc", payload))]
    /\ DbUnchanged
    /\ UNCHANGED <<tx_fee, config_gen, cf, exec, ctx>>

relay_direct_swap(p) ==
    /\ calls[p].pc = "idle"
    /\ \E payload \in Payloads :
          calls' = [calls EXCEPT ![p] =
                        RelayGate(RelayCall("relay_direct_swap", payload))]
    /\ DbUnchanged
    /\ UNCHANGED <<tx_fee, config_gen, cf, exec, ctx>>

\* DummyClientModule::print_using_account / send_money: a transaction with
\* inputs or outputs of its own under a random operation id, no gate.
dummy_tx(p) ==
    /\ calls[p].pc = "idle"
    /\ \E op \in Ops, i \in Amounts, o \in Amounts :
          calls' = [calls EXCEPT ![p] =
                        [IdleCall EXCEPT !.kind = "dummy_tx", !.op = op,
                                         !.input_amount = i,
                                         !.output_amount = o,
                                         !.pc = "finalize"]]
    /\ DbUnchanged
    /\ UNCHANGED <<tx_fee, config_gen, cf, exec, ctx>>

\* The sums of the transaction after the primary module's contributions were
\* appended, each contribution with its amount and its module fee.
FinalInputSum(c, r, fee) ==
    c.input_amount + SumSeq(r.inputs) + Len(r.inputs) * input_fee(fee)

FinalOutputSum(c, r, fee) ==
    c.output_amount + SumSeq(r.outputs) + Len(r.outputs) * output_fee(fee)

\* One run of the closure of finalize_and_submit_transaction on a fresh
\* transaction: the exists check, the primary module's balancing, the
\* balance assertion, the seed states and the log entry.
FinalizeBody(p, c) ==
    IF operation_exists_dbtx(Database, c.op)
    THEN Finish(c, "OperationExists")
    ELSE LET r == create_final_inputs_and_outputs(funds, c.input_amount,
                                                  c.output_amount) IN
         IF r.err
         THEN Finish(c, "InsufficientFunds")
         ELSE LET fi == FinalInputSum(c, r, tx_fee)
                  fo == FinalOutputSum(c, r, tx_fee)
                  sms == BuilderStates(c.kind, c.op, p)
                            \cup PrimaryStates(r, c.op, p)
                            \cup {TxSubmissionState(c.op, p)}
              IN IF fi # fo
                 THEN [Finish(c, "AssertUnbalanced") EXCEPT !.fin_in = fi,
                                                            !.fin_out = fo]
                 ELSE IF ~StatesAreNew(Database, sms)
                 THEN Finish(c, "StateAlreadyExists")
                 ELSE [c EXCEPT !.pc = "finalize_commit", !.snap = Snapshot(c.op),
                                !.sms = sms, !.fin_in = fi, !.fin_out = fo,
                                !.w = [log |-> OperationLogEntry(
                                                  OperationType(c.kind),
                                                  "tx", p),
                                       sms |-> sms, funds |-> r.updated]]

finalize_and_submit_transaction(p) ==
    /\ calls[p].pc = "finalize"
    /\ calls' = [calls EXCEPT ![p] = FinalizeBody(p, @)]
    /\ DbUnchanged
    /\ UNCHANGED <<tx_fee, config_gen, cf, exec, ctx>>

\* The autocommit's commit: on an optimistic-concurrency failure the closure
\* is run again on a fresh transaction.
finalize_commit(p) ==
    /\ calls[p].pc = "finalize_commit"
    /\ IF CommitSucceeds(calls[p])
       THEN /\ ApplyWrites(calls[p])
            /\ calls' = [calls EXCEPT ![p] = Finish(@, "Ok")]
       ELSE /\ DbUnchanged
            /\ calls' = [calls EXCEPT ![p] =
                            [@ EXCEPT !.pc = "finalize", !.snap = NoSnapshot,
                                      !.w = NoWrites, !.sms = {}]]
    /\ UNCHANGED <<tx_fee, config_gen, cf, exec, ctx>>

(***************************************************************************)
(* module_autocommit with closures that use the ClientDbTxContext.         *)
(***************************************************************************)
AutocommitKinds == {"add_operation_log_entry", "add_state_machines",
                    "add_funds"}

MaxAttempts == 2

\* max_attempts: Some(n) as n, None as 0.
AttemptLimits == 0 .. MaxAttempts

\* The batches a closure passes to add_state_machines_dbtx: a state any
\* caller may pass, the same with a state of the caller's own, and a state of
\* the caller's own with one no decoder is registered for.
AutocommitSeeds(p, op) ==
    {{DynState(op, "Send", 0, 0)},
     {DynState(op, "Send", 0, 0), DynState(op, "Send", p, 0)},
     {DynState(op, "Send", p, 0), DynState(op, "Unknown", p, 0)}}

\* A call of module_autocommit with a closure of one of the kinds and an
\* attempt limit out of limits.
module_autocommit(p, kinds, limits) ==
    /\ calls[p].pc = "idle"
    /\ \E kind \in kinds, n \in limits :
       \E op \in IF kind = "add_funds" THEN {1} ELSE Ops :
       \E sms \in IF kind = "add_state_machines" THEN AutocommitSeeds(p, op)
                  ELSE {{}} :
          calls' = [calls EXCEPT ![p] =
                        [IdleCall EXCEPT !.kind = kind, !.op = op,
                                         !.sms = sms, !.max_attempts = n,
                                         !.pc = "autocommit"]]
    /\ DbUnchanged
    /\ UNCHANGED <<tx_fee, config_gen, cf, exec, ctx>>

\* A call of module_autocommit_2: module_autocommit with the same closure and
\* limit, its result mapped when it returns. The closures are those of
\* module_autocommit, for the first operation.
module_autocommit_2(p, kinds, limits) ==
    /\ calls[p].pc = "idle"
    /\ \E kind \in kinds, n \in limits :
       \E sms \in IF kind = "add_state_machines" THEN AutocommitSeeds(p, 1)
                  ELSE {{}} :
          calls' = [calls EXCEPT ![p] =
                        [IdleCall EXCEPT !.kind = kind, !.op = 1,
                                         !.sms = sms, !.max_attempts = n,
                                         !.wrap = "module_autocommit_2",
                                         !.pc = "autocommit"]]
    /\ DbUnchanged
    /\ UNCHANGED <<tx_fee, config_gen, cf, exec, ctx>>

\* Mutant: a failed commit is handed to the caller as an error.
map_err_commit_failed_as_error(res, error) ==
    [res |-> IF res = "Ok" THEN "Ok" ELSE "Err", error |-> error]

\* The map_err of module_autocommit_2: the closure's error is taken out of
\* ClosureError, CommitFailed panics, Ok passes.
module_autocommit_2_map_err(res, error) ==
    IF res = "ClosureError" THEN [res |-> "Err", error |-> error]
    ELSE IF res = "CommitFailed"
    THEN [res |-> "Panic", error |-> "Commit to DB failed"]
    ELSE [res |-> res, error |-> error]

\* The return of an autocommit call: the closure's value with Ok, the error
\* otherwise, mapped if the call came in through module_autocommit_2.
AutocommitReturn(c, res, error) ==
    LET r == IF c.wrap = "module_autocommit_2"
             THEN module_autocommit_2_map_err(res, error)
             ELSE [res |-> res, error |-> error] IN
    [Finish(c, r.res) EXCEPT !.error = r.error,
                             !.value = IF res = "Ok" THEN @ ELSE -1]

\* ClientDbTxContext::add_operation_log_entry: writes the row of the
\* operation id into the caller's transaction and returns nothing.
add_operation_log_entry(p, c) ==
    [c EXCEPT !.pc = "autocommit_commit", !.snap = Snapshot(c.op),
              !.value = 0,
              !.w = [log |-> OperationLogEntry(LightningKind, "raw", p),
                     sms |-> {}, funds |-> -1]]

\* The kinds of state a decoder is registered for.
DecodableKinds == {"Send", "Receive", "Complete", "TxSubmission",
                   "DummyInput", "DummyOutput"}

\* The executor's check of a batch: every state decodes and none is already
\* in the active or the inactive set.
AddStateMachinesOk(db, states) ==
    /\ \A s \in states : s.kind \in DecodableKinds
    /\ StatesAreNew(db, states)

\* The error of that check.
AddStateMachinesError(db, states) ==
    IF \E s \in states : s.kind \notin DecodableKinds
    THEN "Other"
    ELSE "StateAlreadyExists"

\* Mutant: the states of the batch that pass the check are inserted.
add_state_machines_partial(p, c) ==
    LET ok == {s \in c.sms : AddStateMachinesOk(Database, {s})} IN
    [c EXCEPT !.pc = "autocommit_commit", !.snap = Snapshot(c.op),
              !.value = 0,
              !.w = [log |-> NoEntry, sms |-> ok, funds |-> -1]]

\* ClientDbTxContext::add_state_machines_dbtx, its error returned by the
\* closure.
add_state_machines_dbtx(p, c) ==
    IF ~AddStateMachinesOk(Database, c.sms)
    THEN AutocommitReturn(c, "ClosureError",
                          AddStateMachinesError(Database, c.sms))
    ELSE [c EXCEPT !.pc = "autocommit_commit", !.snap = Snapshot(c.op),
                   !.value = 0,
                   !.w = [log |-> NoEntry, sms |-> c.sms, funds |-> -1]]

\* A closure that adds one unit to the funds row through module_dbtx and
\* returns the funds it wrote.
add_funds(p, c) ==
    [c EXCEPT !.pc = "autocommit_commit", !.snap = Snapshot(c.op),
              !.value = funds + 1,
              !.w = [log |-> NoEntry, sms |-> {}, funds |-> funds + 1]]

\* One run of the closure on a fresh transaction.
autocommit_closure(p) ==
    /\ calls[p].pc = "autocommit"
    /\ LET c == [calls[p] EXCEPT !.attempts = @ + 1] IN
       calls' = [calls EXCEPT ![p] =
                    IF c.kind = "add_operation_log_entry"
                    THEN add_operation_log_entry(p, c)
                    ELSE IF c.kind = "add_state_machines"
                    THEN add_state_machines_dbtx(p, c)
                    ELSE add_funds(p, c)]
    /\ DbUnchanged
    /\ UNCHANGED <<tx_fee, config_gen, cf, exec, ctx>>

\* Mutant: the attempt limit is not consulted.
AttemptsExhaustedNever(c) == FALSE

AttemptsExhausted(c) == c.max_attempts # 0 /\ c.max_attempts <= c.attempts

\* The commit of the autocommit: on an optimistic-concurrency failure the
\* closure is run again on a fresh transaction, unless the attempts are
\* used up.
autocommit_commit(p) ==
    /\ calls[p].pc = "autocommit_commit"
    /\ IF CommitSucceeds(calls[p])
       THEN /\ ApplyWrites(calls[p])
            /\ calls' = [calls EXCEPT ![p] =
                            AutocommitReturn(@, "Ok", "none")]
       ELSE /\ DbUnchanged
            /\ calls' = [calls EXCEPT ![p] =
                            IF AttemptsExhausted(@)
                            THEN AutocommitReturn(@, "CommitFailed",
                                                  "CommitConflict")
                            ELSE [@ EXCEPT !.pc = "autocommit",
                                           !.snap = NoSnapshot,
                                           !.w = NoWrites,
                                           !.value = -1]]
    /\ UNCHANGED <<tx_fee, config_gen, cf, exec, ctx>>

(***************************************************************************)
(* The executor.                                                           *)
(***************************************************************************)
\* Mutant: a terminal successor is inserted into both sets.
ApplyTransitionIntoBoth(s) ==
    LET n == Successor(s) IN
    /\ active' = (active \ {s}) \cup {n}
    /\ inactive' = inactive \cup (IF IsTerminal(n) THEN {n} ELSE {})

\* Mutant: the prior state is not removed when its successor is inserted.
ApplyTransitionKeepPrior(s) ==
    LET n == Successor(s) IN
    /\ active' = active \cup (IF IsTerminal(n) THEN {} ELSE {n})
    /\ inactive' = inactive \cup (IF IsTerminal(n) THEN {n} ELSE {})

\* One transition of an active state, in one database transaction: the state
\* leaves the active set and its successor enters the active set, or the
\* inactive set when it is terminal.
ApplyTransition(s) ==
    LET n == Successor(s) IN
    /\ active' = (active \ {s}) \cup (IF IsTerminal(n) THEN {} ELSE {n})
    /\ inactive' = inactive \cup (IF IsTerminal(n) THEN {n} ELSE {})

executor_transition ==
    /\ \E s \in active : ~IsTerminal(s) /\ ApplyTransition(s)
    /\ UNCHANGED <<oplog, funds, tx_fee, config_gen, calls, cf, exec, ctx>>

(***************************************************************************)
(* The executor's process, step by step: the race of the awaits of an      *)
(* active state, the application of the winner in one database             *)
(* transaction, shutdown, crash and restart.                               *)
(***************************************************************************)
MaxCrashes == 1

\* The process state of the executor. running: the drive loop runs; won: the
\* awaits that resolved first and whose apply has not committed; cancelled:
\* the awaits that lost a race; applied: the transitions applied, in the
\* order of their commits; at_crash, observed: the active set when the
\* process was killed and the active set read at the restart after it; sub:
\* the notifier's stream of one subscriber.
SubOff == [on |-> FALSE, op |-> 1, from |-> 0, buffer |-> <<>>,
           seen |-> <<>>]

ExecOff == [running |-> TRUE, shutdown |-> FALSE, crashes |-> 0,
            won |-> {}, cancelled |-> {}, applied |-> <<>>,
            at_crash |-> {}, observed |-> {}, sub |-> SubOff]

\* The transitions a state offers: a Send state in Sending can be claimed or
\* cancelled, every other state has one way forward, a terminal state none.
Transitions(s) ==
    IF IsTerminal(s) THEN {}
    ELSE IF s.kind = "Send" THEN {1, 2}
    ELSE {1}

\* apply of transition t on state s.
SuccessorOf(s, t) == [s EXCEPT !.stage = @ + t]

Race(s, t) == [s |-> s, t |-> t]

\* Mutant: a race that has a winner stays open.
HasWinnerNever(s) == FALSE

HasWinner(s) == \E w \in exec.won : w.s = s

\* Step 2: the await of transition t of s is the first to produce a value;
\* the awaits of the other transitions of s are cancelled.
await_resolves ==
    /\ exec.running
    /\ \E s \in active : \E t \in Transitions(s) :
          /\ ~HasWinner(s)
          /\ exec' = [exec EXCEPT
                 !.won = @ \cup {Race(s, t)},
                 !.cancelled = @ \cup {Race(s, u) : u \in Transitions(s) \ {t}}]
    /\ DbUnchanged
    /\ UNCHANGED <<tx_fee, config_gen, calls, cf, ctx>>

\* Mutant: a terminal successor is left in the active set.
ApplyWinnerStaysActive(w) ==
    LET n == SuccessorOf(w.s, w.t) IN
    /\ w.s \in active
    /\ active' = (active \ {w.s}) \cup {n}
    /\ inactive' = inactive

\* Mutant: the prior state is left in the active set.
ApplyWinnerKeepsPrior(w) ==
    LET n == SuccessorOf(w.s, w.t) IN
    /\ w.s \in active
    /\ active' = active \cup (IF IsTerminal(n) THEN {} ELSE {n})
    /\ inactive' = inactive \cup (IF IsTerminal(n) THEN {n} ELSE {})

\* Step 3 for the winner w: s is re-read from the active set, removed from
\* it, and its successor inserted, into the inactive set when terminal.
ApplyWinner(w) ==
    LET n == SuccessorOf(w.s, w.t) IN
    /\ w.s \in active
    /\ active' = (active \ {w.s}) \cup (IF IsTerminal(n) THEN {} ELSE {n})
    /\ inactive' = inactive \cup (IF IsTerminal(n) THEN {n} ELSE {})

\* Step 4: the notifier sends the successor to the subscriber of its
\* operation id.
Notify(sub, n) ==
    IF sub.on /\ sub.op = n.op
    THEN [sub EXCEPT !.buffer = Append(@, n)]
    ELSE sub

apply_transition ==
    /\ exec.running
    /\ \E w \in exec.won :
          /\ ApplyWinner(w)
          /\ exec' = [exec EXCEPT !.won = @ \ {w},
                                  !.applied = Append(@, w),
                                  !.sub = Notify(@, SuccessorOf(w.s, w.t))]
    /\ UNCHANGED <<oplog, funds, tx_fee, config_gen, calls, cf, ctx>>

\* A call that was in flight when the process stopped: its transaction is
\* dropped.
StopCall(c) == IF c.pc = "done" THEN c ELSE Finish(c, "Stopped")

\* The shutdown signal: every pending await is cancelled and the drive loop
\* returns.
shutdown ==
    /\ exec.running
    /\ exec' = [exec EXCEPT
           !.running = FALSE, !.shutdown = TRUE, !.won = {},
           !.sub = SubOff,
           !.cancelled = @ \cup UNION {{Race(s, u) : u \in Transitions(s)} :
                                        s \in active}]
    /\ calls' = [p \in Procs |-> StopCall(calls[p])]
    /\ DbUnchanged
    /\ UNCHANGED <<tx_fee, config_gen, cf, ctx>>

\* The process is killed: what is not committed is lost.
crash ==
    /\ exec.running
    /\ exec.crashes < MaxCrashes
    /\ exec' = [exec EXCEPT !.running = FALSE, !.crashes = @ + 1,
                            !.won = {}, !.cancelled = {},
                            !.at_crash = active, !.sub = SubOff]
    /\ calls' = [p \in Procs |-> StopCall(calls[p])]
    /\ DbUnchanged
    /\ UNCHANGED <<tx_fee, config_gen, cf, ctx>>

\* Recovery reads the active set and restarts all transitions from step 1.
restart ==
    /\ ~exec.running
    /\ ~exec.shutdown
    /\ exec' = [exec EXCEPT !.running = TRUE, !.observed = active]
    /\ DbUnchanged
    /\ UNCHANGED <<tx_fee, config_gen, calls, cf, ctx>>

\* notifier.subscribe(operation_id): a stream of the states the executor
\* persists for the operation id from now on, not of the history.
subscribe ==
    /\ exec.running
    /\ ~exec.sub.on
    /\ \E op \in Ops :
          exec' = [exec EXCEPT !.sub = [SubOff EXCEPT !.on = TRUE, !.op = op,
                                            !.from = Len(exec.applied)]]
    /\ DbUnchanged
    /\ UNCHANGED <<tx_fee, config_gen, calls, cf, ctx>>

\* stream.next(): the subscriber takes the next state of its stream.
subscriber_next ==
    /\ exec.sub.on
    /\ exec.sub.buffer # <<>>
    /\ exec' = [exec EXCEPT !.sub.seen = Append(@, Head(exec.sub.buffer)),
                            !.sub.buffer = Tail(@)]
    /\ DbUnchanged
    /\ UNCHANGED <<tx_fee, config_gen, calls, cf, ctx>>

\* Mutant: a slow consumer loses terminal states as well.
DroppableAny(s) == TRUE

\* Backpressure: a slow consumer drops intermediate states but never
\* terminal ones.
Droppable(s) == ~IsTerminal(s)

RemoveAt(seq, i) == SubSeq(seq, 1, i - 1) \o SubSeq(seq, i + 1, Len(seq))

subscriber_lags ==
    /\ exec.sub.on
    /\ \E i \in DOMAIN exec.sub.buffer :
          /\ Droppable(exec.sub.buffer[i])
          /\ exec' = [exec EXCEPT !.sub.buffer = RemoveAt(@, i)]
    /\ DbUnchanged
    /\ UNCHANGED <<tx_fee, config_gen, calls, cf, ctx>>

CtxOff == [pc |-> "off"]

(***************************************************************************)
(* An isolated call of the primary module's                                *)
(* create_final_inputs_and_outputs on arbitrary funds and amounts.         *)
(***************************************************************************)
MaxCfAmount == 4

CfAmounts == 0 .. MaxCfAmount

CfOff == [pc |-> "off", our_funds |-> 0, input_amount |-> 0,
          output_amount |-> 0,
          r |-> [err |-> FALSE, inputs |-> <<>>, outputs |-> <<>>,
                 updated |-> -1]]

create_final_call ==
    /\ cf.pc = "call"
    /\ cf' = [cf EXCEPT !.pc = "ret",
                        !.r = create_final_inputs_and_outputs(
                                  cf.our_funds, cf.input_amount,
                                  cf.output_amount)]
    /\ UNCHANGED <<oplog, active, inactive, funds, tx_fee,
                 config_gen, calls, exec, ctx>>

(***************************************************************************)
(* The type-erased IClientModule: the typed module is handed a database    *)
(* transaction under the prefix of its module instance.                    *)
(***************************************************************************)
MaxInstances == 3

Instances == 1 .. MaxInstances

\* The prefixes under which a funds row can be stored: none, or that of a
\* module instance.
Prefixes == {<<>>} \cup {<<i>> : i \in Instances}

\* A transaction on the whole database: no prefix, the funds row stored
\* under each prefix, and the keys touched so far.
GlobalDbtx(kv) == [prefix |-> <<>>, kv |-> kv, touched |-> {}]

\* Mutant: the transaction is passed on as it is.
to_ref_without_prefix(dbtx, module_instance) == dbtx

to_ref_with_prefix_module_id(dbtx, module_instance) ==
    [dbtx EXCEPT !.prefix = Append(@, module_instance)]

ensure_isolated(dbtx) == dbtx.prefix # <<>>

\* get_funds: dbtx.get_value(&DummyClientFundsKeyV1), zero when absent.
get_funds(dbtx) == dbtx.kv[dbtx.prefix]

Touch(dbtx) == [dbtx EXCEPT !.touched = @ \cup {dbtx.prefix}]

\* DummyClientModule::create_final_inputs_and_outputs on the transaction it
\* is given: the isolation check, the read of the funds and their update.
DummyCreateFinal(dbtx, input_amount, output_amount) ==
    IF ~ensure_isolated(dbtx)
    THEN [panic |-> TRUE, dbtx |-> dbtx, r |-> CfOff.r, balance |-> 0]
    ELSE IF input_amount < output_amount
    THEN LET r == create_final_inputs_and_outputs(get_funds(dbtx),
                                                  input_amount, output_amount)
         IN [panic |-> FALSE, r |-> r, balance |-> 0,
             dbtx |-> IF r.updated >= 0
                      THEN [Touch(dbtx) EXCEPT !.kv[dbtx.prefix] = r.updated]
                      ELSE Touch(dbtx)]
    ELSE [panic |-> FALSE, dbtx |-> dbtx, balance |-> 0,
          r |-> create_final_inputs_and_outputs(0, input_amount,
                                                output_amount)]

\* DummyClientModule::get_balance.
DummyGetBalance(dbtx) ==
    [panic |-> FALSE, dbtx |-> Touch(dbtx), r |-> CfOff.r,
     balance |-> get_funds(dbtx)]

\* IClientModule::create_final_inputs_and_outputs and get_balance for a
\* typed module.
IClientModuleCall(fn, module_instance, dbtx, input_amount, output_amount) ==
    IF fn = "create_final_inputs_and_outputs"
    THEN DummyCreateFinal(
             to_ref_with_prefix_module_id(dbtx, module_instance),
             input_amount, output_amount)
    ELSE DummyGetBalance(to_ref_with_prefix_module_id(dbtx, module_instance))

MaxIsoAmount == 1

IsoCalls ==
    [pc : {"call"},
     fn : {"create_final_inputs_and_outputs", "get_balance"},
     module_instance : Instances,
     kv : [Prefixes -> 0 .. MaxIsoAmount],
     input_amount : 0 .. MaxIsoAmount,
     output_amount : 0 .. MaxIsoAmount,
     ret : {[panic |-> FALSE, dbtx |-> GlobalDbtx(<<>>), r |-> CfOff.r,
             balance |-> 0]}]

iclient_module_call ==
    /\ ctx.pc = "call"
    /\ ctx.fn \in {"create_final_inputs_and_outputs", "get_balance"}
    /\ ctx' = [ctx EXCEPT
                 !.pc = "ret",
                 !.ret = IClientModuleCall(ctx.fn, ctx.module_instance,
                                           GlobalDbtx(ctx.kv),
                                           ctx.input_amount,
                                           ctx.output_amount)]
    /\ UNCHANGED <<oplog, active, inactive, funds, tx_fee,
                 config_gen, calls, cf, exec>>

(***************************************************************************)
(* ClientContext: typed values and their type-erased form, and the lookup  *)
(* of an operation.                                                        *)
(***************************************************************************)
MaxValue == 2

\* The kind of the module behind a module instance id; two instances may be
\* of the same kind.
InstanceKind(i) == IF i % 2 = 1 THEN DummyKind ELSE LightningKind

\* The typed inputs or outputs of the module of instance i.
TypedValues(i, io) ==
    [type : {InstanceKind(i)}, io : {io}, v : 1 .. MaxValue]

None == [some |-> FALSE]

Some(x) == [some |-> TRUE, value |-> x]

\* typed.into_dyn(self.module_instance_id)
make_dyn(i, typed) == [module_instance_id |-> i, value |-> typed]

make_dyn_input(i, input) == make_dyn(i, input)

make_dyn_output(i, output) == make_dyn(i, output)

\* as_any().downcast_ref::<T>(): the value when it is of the type of the
\* module of instance i.
Downcast(i, d, io) ==
    IF d.value.type = InstanceKind(i) /\ d.value.io = io
    THEN Some(d.value)
    ELSE [some |-> FALSE, panic |-> "instance_id just checked"]

\* Mutant: the value is handed out whenever it is of the module's type.
input_from_dyn_by_type(i, input) ==
    IF input.value.type = InstanceKind(i)
    THEN Downcast(i, input, "input")
    ELSE None

input_from_dyn(i, input) ==
    IF input.module_instance_id = i
    THEN Downcast(i, input, "input")
    ELSE None

output_from_dyn(i, output) ==
    IF output.module_instance_id = i
    THEN Downcast(i, output, "output")
    ELSE None

\* A ClientContext of instance maker turns x into a dyn value, and the
\* ClientContext of instance module_instance is asked for the typed value.
DynCalls ==
    UNION {[pc : {"make"}, fn : {io}, module_instance : Instances,
            maker : {j}, x : TypedValues(j, io), d : {None}, ret : {None}] :
           j \in Instances, io \in {"input", "output"}}

make_dyn_call ==
    /\ ctx.pc = "make"
    /\ ctx' = [ctx EXCEPT !.pc = "from",
                          !.d = IF ctx.fn = "input"
                                THEN make_dyn_input(ctx.maker, ctx.x)
                                ELSE make_dyn_output(ctx.maker, ctx.x)]
    /\ UNCHANGED <<oplog, active, inactive, funds, tx_fee,
                 config_gen, calls, cf, exec>>

from_dyn_call ==
    /\ ctx.pc = "from"
    /\ ctx' = [ctx EXCEPT !.pc = "ret",
                          !.ret = IF ctx.fn = "input"
                                  THEN input_from_dyn(ctx.module_instance,
                                                      ctx.d)
                                  ELSE output_from_dyn(ctx.module_instance,
                                                       ctx.d)]
    /\ UNCHANGED <<oplog, active, inactive, funds, tx_fee,
                 config_gen, calls, cf, exec>>

Err(msg) == [ok |-> FALSE, err |-> msg]

Ok(x) == [ok |-> TRUE, value |-> x]

\* Mutant: the entry is returned whatever its module kind.
get_operation_any_kind(db, operation_id, kind) ==
    IF db.oplog[operation_id] = NoEntry
    THEN Err("Operation not found")
    ELSE Ok(db.oplog[operation_id])

\* ClientContext::get_operation of a module of the given kind.
get_operation(db, operation_id, kind) ==
    LET operation == db.oplog[operation_id] IN
    IF operation = NoEntry
    THEN Err("Operation not found")
    ELSE IF operation.kind # kind
    THEN Err("Operation is not a lightning operation")
    ELSE Ok(operation)

get_operation_call ==
    /\ \E operation_id \in Ops, kind \in ModuleKinds :
          ctx' = [pc |-> "ret", fn |-> "get_operation",
                  operation_id |-> operation_id, kind |-> kind,
                  ret |-> get_operation(Database, operation_id, kind)]
    /\ DbUnchanged
    /\ UNCHANGED <<tx_fee, config_gen, calls, cf, exec>>

(***************************************************************************)
(* FinalClient: the one-shot cell with the weak handle of the client that  *)
(* every ClientContext method upgrades for the time of one call.           *)
(***************************************************************************)
MaxHandles == 2

\* The cell before set, and the client under construction held by its
\* builder: the strong handles users hold, and the outcome of set.
ClientUnset == [pc |-> "client", set |-> FALSE, handles |-> 1,
                set_res |-> "none"]

\* Strong handles of the client: those of its users and the temporary one of
\* every call in progress.
StrongCount ==
    ctx.handles + Cardinality({p \in Procs : calls[p].pc = "client_held"})

\* Weak::upgrade: a strong handle while one is left.
upgrade == IF StrongCount > 0 THEN Some("ClientStrong") ELSE None

\* FinalClient::get: the temporary strong handle, or the panic of expect.
FinalClient_get ==
    IF ~ctx.set THEN [res |-> "Panic", error |-> "client must be already set"]
    ELSE IF upgrade = None
    THEN [res |-> "Panic",
          error |->
            "client module context must not be use past client shutdown"]
    ELSE [res |-> "ClientStrong", error |-> "none"]

\* FinalClient::set, by the builder of the client.
FinalClient_set ==
    /\ ctx.pc = "client"
    /\ ctx.handles > 0
    /\ ctx.set_res # "Panic"
    /\ ctx' = IF ctx.set
              THEN [ctx EXCEPT !.set_res = "Panic"]
              ELSE [ctx EXCEPT !.set = TRUE, !.set_res = "Ok"]
    /\ DbUnchanged
    /\ UNCHANGED <<tx_fee, config_gen, calls, cf, exec>>

\* A user clones its handle of the client.
client_handle_clone ==
    /\ ctx.pc = "client"
    /\ ctx.handles > 0
    /\ ctx.handles < MaxHandles
    /\ ctx' = [ctx EXCEPT !.handles = @ + 1]
    /\ DbUnchanged
    /\ UNCHANGED <<tx_fee, config_gen, calls, cf, exec>>

\* A user drops its handle; the client shuts down with the last one.
client_handle_drop ==
    /\ ctx.pc = "client"
    /\ ctx.handles > 0
    /\ ctx' = [ctx EXCEPT !.handles = @ - 1]
    /\ DbUnchanged
    /\ UNCHANGED <<tx_fee, config_gen, calls, cf, exec>>

\* ClientContext::operation_exists up to the client's answer: the call
\* holds the strong handle FinalClient::get gave it, or has panicked.
operation_exists(p) ==
    /\ ctx.pc = "client"
    /\ calls[p].pc = "idle"
    /\ \E op \in Ops :
          LET c == [IdleCall EXCEPT !.kind = "operation_exists", !.op = op]
              got == FinalClient_get IN
          calls' = [calls EXCEPT ![p] =
                      IF got.res = "ClientStrong"
                      THEN [c EXCEPT !.pc = "client_held"]
                      ELSE [Finish(c, got.res) EXCEPT !.error = got.error]]
    /\ DbUnchanged
    /\ UNCHANGED <<tx_fee, config_gen, cf, exec, ctx>>

\* The client's answer; the temporary strong handle is dropped.
operation_exists_return(p) ==
    /\ calls[p].pc = "client_held"
    /\ calls' = [calls EXCEPT ![p] =
                   [Finish(@, "Ok") EXCEPT
                       !.value = IF operation_exists_dbtx(Database,
                                                          calls[p].op)
                                 THEN 1 ELSE 0]]
    /\ DbUnchanged
    /\ UNCHANGED <<tx_fee, config_gen, cf, exec, ctx>>

(***************************************************************************)
(* DummyStateMachine and await_primary_module_output: the state machine of *)
(* the primary module's input or output of an operation, the notifier's    *)
(* stream of each waiting caller, and the wait for the output.             *)
(***************************************************************************)
NoMachine == [variant |-> "None", amount |-> 0, origin |-> "None"]

DummyStateMachine(variant, amount, origin) ==
    [variant |-> variant, amount |-> amount, origin |-> origin]

OutIdxs == {0, 1}

\* sm: the primary module's state machine of each operation; out_idx: the
\* index of the primary module's output in the operation's transaction;
\* funds0: the funds at the start; stream: what the notifier has sent to each
\* waiting caller and the caller has not yet taken.
PrimaryOff(f) == [pc |-> "primary", sm |-> [o \in Ops |-> NoMachine],
                  out_idx |-> [o \in Ops |-> 0], funds0 |-> f,
                  stream |-> [p \in Procs |-> <<>>]]

\* The notifier sends the state to the callers subscribed to its operation
\* id.
NotifyStreams(op, state) ==
    [p \in Procs |->
        IF calls[p].pc = "awaiting" /\ calls[p].op = op
        THEN Append(ctx.stream[p], state)
        ELSE ctx.stream[p]]

\* A transaction of a new operation is finalized: the primary module covers
\* the difference of the amounts and its input or output starts a state
\* machine. The builder's output, if it has one, comes before the primary
\* module's.
primary_finalize ==
    /\ ctx.pc = "primary"
    /\ \E op \in Ops, input_amount \in Amounts, output_amount \in Amounts :
          LET r == create_final_inputs_and_outputs(funds, input_amount,
                                                   output_amount)
              builder_outputs == IF output_amount > 0 THEN 1 ELSE 0 IN
          /\ oplog[op] = NoEntry
          /\ ~r.err
          /\ input_amount # output_amount
          /\ oplog' = [oplog EXCEPT ![op] =
                          OperationLogEntry(DummyKind, "tx", 1)]
          /\ funds' = IF r.updated >= 0 THEN r.updated ELSE funds
          /\ ctx' = [ctx EXCEPT
                       !.sm[op] =
                          IF r.inputs # <<>>
                          THEN DummyStateMachine("Input", r.inputs[1], "Input")
                          ELSE DummyStateMachine("Output", r.outputs[1],
                                                 "Output"),
                       !.out_idx[op] = builder_outputs]
    /\ UNCHANGED <<active, inactive, tx_fee, config_gen, calls, cf, exec>>

\* The transition of a DummyStateMachine: an accepted output is credited to
\* the funds and becomes OutputDone, a rejected one becomes Refund; an
\* accepted input becomes InputDone, a rejected one is given back to the
\* funds and becomes Refund.
DummyTransition(s, accepted) ==
    IF s.variant = "Output"
    THEN IF accepted
         THEN [state |-> DummyStateMachine("OutputDone", s.amount, s.origin),
               credit |-> s.amount]
         ELSE [state |-> DummyStateMachine("Refund", s.amount, s.origin),
               credit |-> 0]
    ELSE IF accepted
         THEN [state |-> DummyStateMachine("InputDone", s.amount, s.origin),
               credit |-> 0]
         ELSE [state |-> DummyStateMachine("Refund", s.amount, s.origin),
               credit |-> s.amount]

\* The executor applies the transition and the notifier sends the new state.
dummy_transition ==
    /\ ctx.pc = "primary"
    /\ \E op \in Ops, accepted \in BOOLEAN :
          LET n == DummyTransition(ctx.sm[op], accepted) IN
          /\ ctx.sm[op].variant \in {"Input", "Output"}
          /\ funds' = funds + n.credit
          /\ ctx' = [ctx EXCEPT !.sm[op] = n.state,
                                !.stream = NotifyStreams(op, n.state)]
    /\ UNCHANGED <<oplog, active, inactive, tx_fee, config_gen, calls, cf, exec>>

\* Mutant: a refund is reported as an amount.
PrimaryOutputFilterRefundAsAmount(state) ==
    IF state.variant \in {"OutputDone", "Refund"}
    THEN Some(Ok(state.amount))
    ELSE None

\* The filter_map of await_primary_module_output.
PrimaryOutputFilter(state) ==
    IF state.variant = "OutputDone" THEN Some(Ok(state.amount))
    ELSE IF state.variant = "Refund"
    THEN Some(Err("Error occurred processing the dummy transaction"))
    ELSE None

\* await_primary_module_output up to its subscription: a stream of the
\* states of the operation id from now on. The out_point is not used.
await_primary_module_output(p) ==
    /\ ctx.pc = "primary"
    /\ calls[p].pc = "idle"
    /\ \E operation_id \in Ops, out_point \in OutIdxs :
          calls' = [calls EXCEPT ![p] =
                      [IdleCall EXCEPT
                          !.kind = "await_primary_module_output",
                          !.op = operation_id, !.payload = out_point,
                          !.pc = "awaiting"]]
    /\ ctx' = [ctx EXCEPT !.stream[p] = <<>>]
    /\ DbUnchanged
    /\ UNCHANGED <<tx_fee, config_gen, cf, exec>>

\* next_or_pending on the filtered stream: the next state of the stream is
\* passed over, or ends the call with its amount or with the error.
await_primary_module_output_next(p) ==
    /\ ctx.pc = "primary"
    /\ calls[p].pc = "awaiting"
    /\ ctx.stream[p] # <<>>
    /\ LET item == PrimaryOutputFilter(Head(ctx.stream[p])) IN
       /\ calls' = [calls EXCEPT ![p] =
                      IF item = None THEN @
                      ELSE IF item.value.ok
                      THEN [Finish(@, "Ok") EXCEPT
                               !.value = item.value.value]
                      ELSE [Finish(@, "Err") EXCEPT
                               !.error = item.value.err]]
       /\ ctx' = [ctx EXCEPT !.stream[p] =
                                IF item = None THEN Tail(@) ELSE <<>>]
    /\ DbUnchanged
    /\ UNCHANGED <<tx_fee, config_gen, cf, exec>>

(***************************************************************************)
(* GatewayClientModuleV2::send_payment and subscribe_send.                 *)
(***************************************************************************)
\* The notifier's stream of each caller in subscribe_send.
SendOff == [pc |-> "send", stream |-> [p \in Procs |-> <<>>]]

\* Mutant: the operation id taken from the call, not from the contract.
SendCallIdPerCaller(p, payload) ==
    [IdleCall EXCEPT !.kind = "send_payment", !.payload = payload, !.op = p]

\* The call: the operation id is derived from the outgoing contract.
SendCall(p, payload) ==
    [IdleCall EXCEPT !.kind = "send_payment", !.payload = payload,
                     !.op = OperationIdFromEncodable(payload)]

\* The Send state machine of a call, in Sending; max_delay and
\* min_contract_amount are what the federation and the gateway answered to
\* this call.
SendStateMachine(p, op) == DynState(op, "Send", p, 0)

\* self.notifier.subscribe(operation_id), the first step of subscribe_send.
SubscribeSend(c) == [c EXCEPT !.pc = "subscribe_send"]

\* send_payment up to its first await: a call that finds the operation
\* existing goes on to subscribe_send; otherwise the checks of the payload
\* against the gateway's key and the invoice.
send_payment(p) ==
    /\ ctx.pc = "send"
    /\ calls[p].pc = "idle"
    /\ \E payload \in Payloads, well_formed \in BOOLEAN :
          LET c == SendCall(p, payload) IN
          calls' = [calls EXCEPT ![p] =
                      IF operation_exists_dbtx(Database, c.op)
                      THEN SubscribeSend([c EXCEPT !.res = "Exists"])
                      ELSE IF ~well_formed
                      THEN Finish(c, "Err")
                      ELSE [c EXCEPT !.pc = "send_confirm"]]
    /\ ctx' = [ctx EXCEPT !.stream[p] = <<>>]
    /\ DbUnchanged
    /\ UNCHANGED <<tx_fee, config_gen, cf, exec>>

\* The federation has answered whether the contract is confirmed; then
\* manual_operation_start up to its commit, its error dropped by ok().
send_payment_start(p) ==
    /\ calls[p].pc = "send_confirm"
    /\ \E confirmed \in BOOLEAN :
          LET c == calls[p]
              m == ManualStartBody(p, c.op, {SendStateMachine(p, c.op)}) IN
          calls' = [calls EXCEPT ![p] =
                      IF ~confirmed THEN Finish(c, "Err")
                      ELSE IF m.res = "PanicStateMachineInvalid"
                      THEN Finish(c, m.res)
                      ELSE IF m.pc = "done"
                      THEN SubscribeSend([c EXCEPT !.res = m.res])
                      ELSE [m EXCEPT !.kind = c.kind, !.payload = c.payload,
                                     !.pc = "send_commit"]]
    /\ ctx' = [ctx EXCEPT !.stream[p] = <<>>]
    /\ DbUnchanged
    /\ UNCHANGED <<tx_fee, config_gen, cf, exec>>

\* The commit of manual_operation_start within send_payment, and the
\* subscription that follows whatever its result.
send_payment_commit(p) ==
    /\ calls[p].pc = "send_commit"
    /\ IF CommitSucceeds(calls[p])
       THEN /\ ApplyWrites(calls[p])
            /\ calls' = [calls EXCEPT ![p] =
                           SubscribeSend([@ EXCEPT !.res = "Ok",
                                                   !.snap = NoSnapshot,
                                                   !.w = NoWrites])]
       ELSE /\ DbUnchanged
            /\ calls' = [calls EXCEPT ![p] =
                           SubscribeSend([@ EXCEPT !.res = "OperationExists",
                                                   !.snap = NoSnapshot,
                                                   !.w = NoWrites])]
    /\ ctx' = [ctx EXCEPT !.stream[p] = <<>>]
    /\ UNCHANGED <<tx_fee, config_gen, cf, exec>>

\* The executor applies a transition of a Send state machine, to Claiming
\* or to Cancelled, and the notifier sends the new state to the callers
\* subscribed to its operation id.
send_transition ==
    /\ ctx.pc = "send"
    /\ \E s \in active : \E u \in Transitions(s) :
          LET n == SuccessorOf(s, u) IN
          /\ s.kind = "Send"
          /\ ApplyWinner(Race(s, u))
          /\ ctx' = [ctx EXCEPT !.stream =
                        [p \in Procs |->
                            IF calls[p].pc = "subscribe_send"
                                  /\ calls[p].op = n.op
                            THEN Append(ctx.stream[p], n)
                            ELSE ctx.stream[p]]]
    /\ UNCHANGED <<oplog, funds, tx_fee, config_gen, calls, cf, exec>>

\* The loop of subscribe_send: a Send state in Sending and a state of
\* another machine are passed over, Claiming returns the preimage and
\* Cancelled the forfeit signature.
subscribe_send_next(p) ==
    /\ calls[p].pc = "subscribe_send"
    /\ ctx.stream[p] # <<>>
    /\ LET state == Head(ctx.stream[p]) IN
       calls' = [calls EXCEPT ![p] =
                   IF state.kind # "Send" \/ state.stage = 0 THEN @
                   ELSE [@ EXCEPT !.pc = "done",
                                  !.error = IF state.stage = 1
                                            THEN "none" ELSE "Signature",
                                  !.value = IF state.stage = 1
                                            THEN state.op ELSE -1]]
    /\ ctx' = [ctx EXCEPT !.stream[p] = Tail(@)]
    /\ DbUnchanged
    /\ UNCHANGED <<tx_fee, config_gen, cf, exec>>

(***************************************************************************)
(* ConfigGenApi: the config generation API of the guardians. Guardian      *)
(* Leader is set up without a leader url; every other guardian names it as *)
(* its leader. A guardian's api_url is its number.                         *)
(***************************************************************************)
MaxGuardians == 2
MaxName == 2
MaxCerts == 2
MaxAuth == 2
MaxRestarts == 1

Guardians == 1 .. MaxGuardians
Leader == 1
Names == 0 .. MaxName
Auths == 1 .. MaxAuth

\* ServerStatus
AwaitingPassword == "AwaitingPassword"
SharingConfigGenParams == "SharingConfigGenParams"
ReadyForConfigGen == "ReadyForConfigGen"
ConfigGenFailed == "ConfigGenFailed"
VerifyingConfigs == "VerifyingConfigs"
VerifiedConfigs == "VerifiedConfigs"
SetupRestarted == "SetupRestarted"

\* ConfigGenState::new; auth is 0 for None.
ConfigGenState_new ==
    [auth |-> 0, local |-> None, peers |-> {}, requested_params |-> None,
     status |-> AwaitingPassword, config |-> None]

\* An admin call of a guardian that is between two of its steps, and a
\* spawned task. rpc is the add_config_gen_peer request in flight; leader is
\* the leader's url the call or task has captured.
NoCall == [fn |-> "none", pc |-> "none", rpc |-> None, leader |-> None]

Task(kind, id, pc, leader) ==
    [kind |-> kind, id |-> id, pc |-> pc, leader |-> leader, rpc |-> None,
     request |-> None, consensus |-> None, params |-> None]

NoRet == [g |-> 0, fn |-> "none", ok |-> TRUE, value |-> None, err |-> "none"]

\* state: the ConfigGenState behind each guardian's mutex; call: the admin
\* call of the guardian that is in flight; tasks: the tasks the guardian has
\* spawned and that have not ended; ret: the result of the last admin call
\* that returned, and its guardian; certs: the TLS certificates the guardian has generated;
\* task_ids: the tasks it has spawned; spawned: the DKG tasks spawned since
\* its state was new or reset; restarts: its setup restarts; sort_by_url:
\* whether FM_PEER_ID_SORT_BY_URL is set.
ConfigGenOff(sort_by_url) ==
    [state |-> [g \in Guardians |-> ConfigGenState_new],
     call |-> [g \in Guardians |-> NoCall],
     tasks |-> [g \in Guardians |-> {}],
     ret |-> NoRet,
     certs |-> [g \in Guardians |-> 0],
     task_ids |-> [g \in Guardians |-> 0],
     spawned |-> [g \in Guardians |-> 0],
     restarts |-> [g \in Guardians |-> 0],
     sort_by_url |-> sort_by_url]

ClientUnchanged ==
    UNCHANGED <<oplog, active, inactive, funds, tx_fee, calls, cf, exec, ctx>>

\* An Ok with its value wrapped, an Err as it is.
ResultSome(result) ==
    IF result.ok THEN Ok(Some(result.value)) ELSE result

\* The result of an admin call of a guardian: the value of an Ok, None for
\* the unit value, or the message of the error.
Ret(g, fn, result) ==
    [g |-> g, fn |-> fn, ok |-> result.ok,
     value |-> IF result.ok THEN result.value ELSE None,
     err |-> IF result.ok THEN "none" ELSE result.err]

\* Self::bad_request / ApiError
BadRequest(msg) == Err(msg)

\* The kind of the ApiError with a message: ApiError::not_found for the
\* leader that cannot be asked, a panic, ApiError::bad_request for the rest.
ErrorKind(msg) ==
    IF msg \in {"Unable to connect to the leader", "Cannot get leader params"}
    THEN "not_found"
    ELSE IF msg = "panicked: Config should exist" THEN "panic"
    ELSE "bad_request"

\* String::to_lowercase on a name: an odd name is the upper-case spelling of
\* the even name below it.
to_lowercase(name) == name - (name % 2)

PeerServerParams(cert, api_url, name, status) ==
    [cert |-> cert, api_url |-> api_url, name |-> name, status |-> status]

\* Mutant: the peer is added next to the entry of its api_url.
BTreeMapInsertKeepOld(peers, peer) == peers \cup {peer}

\* BTreeMap::insert(peer.api_url, peer) on the peer table, a set of entries.
BTreeMapInsert(peers, peer) ==
    {e \in peers : e.api_url # peer.api_url} \cup {peer}

\* BTreeMap::values: the entries in the order of their keys.
RECURSIVE BTreeMapValues(_)
BTreeMapValues(peers) ==
    IF peers = {} THEN <<>>
    ELSE LET first == CHOOSE e \in peers :
                         \A f \in peers : e.api_url <= f.api_url IN
         <<first>> \o BTreeMapValues(peers \ {first})

\* ConfigGenState::our_peer_info
our_peer_info(g, state) ==
    IF ~state.local.some
    THEN BadRequest("Our connection info not set yet")
    ELSE Ok(PeerServerParams(state.local.value.tls_cert, g,
                             state.local.value.our_name,
                             Some(state.status)))

\* The key get_peer_info sorts by.
PeerSortKey(peer, sort_by_url) ==
    IF sort_by_url THEN peer.api_url ELSE to_lowercase(peer.name)

\* One step of the stable sort: the peer goes behind every peer whose key is
\* not greater than its own.
RECURSIVE InsertByKey(_, _, _)
InsertByKey(sorted, peer, sort_by_url) ==
    IF sorted = <<>> THEN <<peer>>
    ELSE IF PeerSortKey(Head(sorted), sort_by_url)
               <= PeerSortKey(peer, sort_by_url)
    THEN <<Head(sorted)>> \o InsertByKey(Tail(sorted), peer, sort_by_url)
    ELSE <<peer>> \o sorted

\* Itertools::sorted_by_cached_key, a stable sort.
RECURSIVE sorted_by_cached_key(_, _)
sorted_by_cached_key(peers, sort_by_url) ==
    IF peers = <<>> THEN <<>>
    ELSE InsertByKey(
            sorted_by_cached_key(SubSeq(peers, 1, Len(peers) - 1),
                                 sort_by_url),
            peers[Len(peers)], sort_by_url)

\* Mutant: the guardian numbers itself without sorting.
get_peer_info_unsorted(g, state, sort_by_url) ==
    BTreeMapValues(state.peers)
        \o (IF our_peer_info(g, state).ok
            THEN <<our_peer_info(g, state).value>> ELSE <<>>)

\* ConfigGenState::get_peer_info: the table's peers and the guardian itself,
\* sorted; the peer at position i has PeerId i - 1.
get_peer_info(g, state, sort_by_url) ==
    sorted_by_cached_key(
        BTreeMapValues(state.peers)
            \o (IF our_peer_info(g, state).ok
                THEN <<our_peer_info(g, state).value>> ELSE <<>>),
        sort_by_url)

\* PeerId::from(i as u16) of the peer at a position.
PeerId(position) == position - 1

\* The parameters of the one module of the registry: the settings' default
\* and what a guardian requests.
DefaultModuleParams == [local |-> 0, consensus |-> 0]

\* A ConfigGenParamsRequest of a guardian: its meta and, unless it leaves
\* the module out, the module's local and consensus parameters.
ConfigGenParamsRequest(g, with_module) ==
    [meta |-> g,
     modules |-> IF with_module
                 THEN Some([local |-> g, consensus |-> g]) ELSE None]

ParamsRequests(g) == {ConfigGenParamsRequest(g, m) : m \in BOOLEAN}

\* Mutant: the consensus part is taken from the guardian's own request.
CombinedModuleParamsOwnConsensus(request, consensus) ==
    [local |-> IF request.modules.some
               THEN request.modules.value.local
               ELSE DefaultModuleParams.local,
     consensus |-> IF request.modules.some
                   THEN request.modules.value.consensus
                   ELSE DefaultModuleParams.consensus]

\* The combined parameters of the module: the local part of the request, the
\* consensus part of the consensus, the default where one is missing.
CombinedModuleParams(request, consensus) ==
    [local |-> IF request.modules.some
               THEN request.modules.value.local
               ELSE DefaultModuleParams.local,
     consensus |-> IF consensus.modules.some
                   THEN consensus.modules.value.consensus
                   ELSE DefaultModuleParams.consensus]

\* ConfigGenState::get_config_gen_params
get_config_gen_params(g, state, request, consensus) ==
    LET found == {i \in DOMAIN consensus.peers :
                     consensus.peers[i].cert = state.local.value.tls_cert}
        first == CHOOSE i \in found : \A j \in found : i <= j IN
    IF ~state.local.some
    THEN BadRequest("Our connection info not set yet")
    ELSE IF found = {}
    THEN BadRequest("Our TLS cert not found among peers")
    ELSE IF state.auth = 0
    THEN BadRequest("Missing auth")
    ELSE Ok([local |-> [our_id |-> PeerId(first), api_auth |-> state.auth,
                        our_private_key |-> state.local.value.tls_cert],
             consensus |->
                [peers |-> consensus.peers, meta |-> consensus.meta,
                 modules |-> Some(CombinedModuleParams(request, consensus))]])

\* ConfigGenApi::consensus_config_gen_params of a guardian without a leader
\* url: the consensus is built from its own peer info and the request.
LeaderConsensusParams(g, state, request, sort_by_url) ==
    LET consensus == [peers |-> get_peer_info(g, state, sort_by_url),
                      meta |-> request.meta, modules |-> request.modules]
        params == get_config_gen_params(g, state, request, consensus) IN
    IF ~params.ok THEN params
    ELSE Ok([consensus |-> consensus,
             our_current_id |-> params.value.local.our_id])

\* The CONSENSUS_CONFIG_GEN_PARAMS endpoint, as a guardian's leader answers.
ConsensusParamsEndpoint(g, cg) ==
    IF ~cg.state[g].requested_params.some
    THEN BadRequest("Config params were not set on this guardian")
    ELSE LeaderConsensusParams(g, cg.state[g],
                               cg.state[g].requested_params.value,
                               cg.sort_by_url)

\* ConfigGenApi::consensus_config_gen_params
consensus_config_gen_params(g, cg, request) ==
    LET state == cg.state[g]
        leader_url == IF state.local.some
                      THEN state.local.value.leader_api_url ELSE None IN
    IF ~leader_url.some
    THEN LeaderConsensusParams(g, state, request, cg.sort_by_url)
    ELSE LET response == ConsensusParamsEndpoint(leader_url.value, cg) IN
         IF ~response.ok THEN Err("Cannot get leader params")
         ELSE LET params == get_config_gen_params(
                                g, state, request, response.value.consensus) IN
              IF ~params.ok THEN params
              ELSE Ok([consensus |-> response.value.consensus,
                       our_current_id |-> params.value.local.our_id])

\* The CONSENSUS_CONFIG_GEN_PARAMS endpoint of a guardian.
consensus_config_gen_params_endpoint(g, cg) ==
    IF ~cg.state[g].requested_params.some
    THEN BadRequest("Config params were not set on this guardian")
    ELSE consensus_config_gen_params(g, cg,
                                     cg.state[g].requested_params.value)

\* Mutant: the status is not looked at.
require_status_any(state, status) == Ok(state)

\* ConfigGenApi::require_status
require_status(state, status) ==
    IF state.status # status
    THEN BadRequest("Expected to be in " \o status \o " state")
    ELSE Ok(state)

\* ConfigGenApi::require_any_status
require_any_status(state, statuses) ==
    IF state.status \notin statuses
    THEN BadRequest("Expected to be in one of the states")
    ELSE Ok(state)

\* ConfigGenState::set_request with the certificate gen_cert_and_key makes.
set_request(g, state, our_name, cert) ==
    [state EXCEPT !.local =
        Some([tls_cert |-> cert, our_name |-> our_name,
              leader_api_url |-> IF g = Leader THEN None ELSE Some(Leader)])]

\* ConfigGenState::reset
reset(state) ==
    [state EXCEPT !.config = None, !.peers = {}, !.auth = 0,
                  !.requested_params = None, !.status = AwaitingPassword,
                  !.local = None]

\* The url a call or task captures for its leader's client.
LeaderClient(state) ==
    IF state.local.some THEN state.local.value.leader_api_url ELSE None

\* update_leader up to its request: the state is cloned and, with a leader
\* url, our_peer_info is what add_config_gen_peer will carry.
UpdateLeaderRequest(g, state) ==
    IF LeaderClient(state).some
    THEN Some([to |-> LeaderClient(state).value,
               peer |-> our_peer_info(g, state).value])
    ELSE None

\* ConfigGenApi::add_config_gen_peer on the guardian the request is for.
add_config_gen_peer(cg, rpc) ==
    [cg EXCEPT !.state[rpc.to].peers = BTreeMapInsert(@, rpc.peer)]

\* What an admin call does with the result of its update_leader: run_dkg
\* and restart_federation_setup spawn their task when it is Ok.
CallReturn(cg, g, result) ==
    LET c == cg.call[g]
        spawns == result.ok /\ c.fn \in {"run_dkg", "restart_federation_setup"}
        task == IF c.fn = "run_dkg"
                THEN Task("run dkg", cg.task_ids[g] + 1,
                          IF c.leader.some THEN "status"
                          ELSE "get_requested_params", c.leader)
                ELSE Task("restart", cg.task_ids[g] + 1, "await", c.leader) IN
    [cg EXCEPT !.call[g] = NoCall,
               !.ret = Ret(g, c.fn, result),
               !.tasks[g] = IF spawns THEN @ \cup {task} ELSE @,
               !.task_ids[g] = IF spawns THEN @ + 1 ELSE @,
               !.spawned[g] = IF spawns /\ c.fn = "run_dkg"
                              THEN @ + 1 ELSE @]

\* The SET_PASSWORD endpoint and ConfigGenApi::set_password; auth 0 is a
\* request without a password.
set_password(g, auth) ==
    /\ config_gen.call[g] = NoCall
    /\ LET state == require_status(config_gen.state[g], AwaitingPassword) IN
       config_gen' =
          IF auth = 0
          THEN [config_gen EXCEPT
                   !.ret = Ret(g, "set_password", Err("Missing password"))]
          ELSE IF ~state.ok
          THEN [config_gen EXCEPT !.ret = Ret(g, "set_password", state)]
          ELSE [config_gen EXCEPT
                   !.state[g] = [state.value EXCEPT
                                    !.auth = auth,
                                    !.status = SharingConfigGenParams],
                   !.ret = Ret(g, "set_password", Ok(None))]
    /\ ClientUnchanged

\* ConfigGenApi::set_config_gen_connections up to its update_leader.
set_config_gen_connections(g, our_name) ==
    /\ config_gen.call[g] = NoCall
    /\ LET state == require_status(config_gen.state[g],
                                   SharingConfigGenParams) IN
       /\ state.ok => config_gen.certs[g] < MaxCerts
       /\ config_gen' =
             IF ~state.ok
             THEN [config_gen EXCEPT
                      !.ret = Ret(g, "set_config_gen_connections", state)]
             ELSE [config_gen EXCEPT
                      !.state[g] = set_request(g, state.value, our_name,
                                               <<g, config_gen.certs[g] + 1>>),
                      !.certs[g] = @ + 1,
                      !.call[g] = [fn |-> "set_config_gen_connections",
                                   pc |-> "update_leader", rpc |-> None,
                                   leader |-> None]]
    /\ ClientUnchanged

\* ConfigGenApi::set_config_gen_params
set_config_gen_params(g, request) ==
    /\ config_gen.call[g] = NoCall
    /\ LET response == consensus_config_gen_params(g, config_gen, request)
           state == require_status(config_gen.state[g],
                                   SharingConfigGenParams) IN
       config_gen' =
          IF ~response.ok
          THEN [config_gen EXCEPT
                   !.ret = Ret(g, "set_config_gen_params", response)]
          ELSE IF ~state.ok
          THEN [config_gen EXCEPT
                   !.ret = Ret(g, "set_config_gen_params", state)]
          ELSE [config_gen EXCEPT
                   !.state[g].requested_params = Some(request),
                   !.ret = Ret(g, "set_config_gen_params", Ok(None))]
    /\ ClientUnchanged

\* The CONSENSUS_CONFIG_GEN_PARAMS endpoint called on a guardian.
get_consensus_config_gen_params(g) ==
    /\ config_gen.call[g] = NoCall
    /\ config_gen' =
          [config_gen EXCEPT
              !.ret = Ret(g, "consensus_config_gen_params",
                          ResultSome(consensus_config_gen_params_endpoint(
                                         g, config_gen)))]
    /\ ClientUnchanged

\* ConfigGenApi::run_dkg up to its update_leader.
run_dkg(g) ==
    /\ config_gen.call[g] = NoCall
    /\ LET state == require_status(config_gen.state[g],
                                   SharingConfigGenParams) IN
       config_gen' =
          IF ~state.ok
          THEN [config_gen EXCEPT !.ret = Ret(g, "run_dkg", state)]
          ELSE [config_gen EXCEPT
                   !.state[g].status = ReadyForConfigGen,
                   !.call[g] = [fn |-> "run_dkg", pc |-> "update_leader",
                                rpc |-> None,
                                leader |-> LeaderClient(state.value)]]
    /\ ClientUnchanged

\* ConfigGenApi::restart_federation_setup up to its update_leader.
restart_federation_setup(g) ==
    /\ config_gen.call[g] = NoCall
    /\ LET state == require_any_status(
                       config_gen.state[g],
                       {SharingConfigGenParams, ReadyForConfigGen,
                        ConfigGenFailed, VerifyingConfigs, VerifiedConfigs}) IN
       /\ state.ok => config_gen.restarts[g] < MaxRestarts
       /\ config_gen' =
             IF ~state.ok
             THEN [config_gen EXCEPT
                      !.ret = Ret(g, "restart_federation_setup", state)]
             ELSE [config_gen EXCEPT
                      !.state[g].status = SetupRestarted,
                      !.restarts[g] = @ + 1,
                      !.call[g] = [fn |-> "restart_federation_setup",
                                   pc |-> "update_leader", rpc |-> None,
                                   leader |-> LeaderClient(state.value)]]
    /\ ClientUnchanged

\* Mutant: the configs can be verified after a DKG that failed, too.
VerifyStatusesOrFailed ==
    {VerifyingConfigs, VerifiedConfigs, ConfigGenFailed}

\* The statuses in which the configs can be verified and consensus started.
VerifyStatuses == {VerifyingConfigs, VerifiedConfigs}

\* The hash of a consensus config tagged with a peer id, and the config
\* hashed: a hash is equal for equal things only.
consensus_hash(peer, consensus) == <<peer, consensus>>

\* ConfigGenApi::verify_config_hash
verify_config_hash(g) ==
    /\ config_gen.call[g] = NoCall
    /\ LET state == require_any_status(config_gen.state[g], VerifyStatuses)
           config == config_gen.state[g].config IN
       config_gen' =
          [config_gen EXCEPT
              !.ret = Ret(g, "verify_config_hash",
                          IF ~state.ok THEN state
                          ELSE IF ~config.some
                          THEN BadRequest("Missing config")
                          ELSE Ok(Some(
                             {consensus_hash(PeerId(i),
                                             config.value.consensus) :
                                 i \in DOMAIN config.value.consensus.peers})))]
    /\ ClientUnchanged

\* ConfigGenApi::verified_configs up to its update_leader.
verified_configs(g) ==
    /\ config_gen.call[g] = NoCall
    /\ LET state == require_any_status(config_gen.state[g], VerifyStatuses) IN
       config_gen' =
          IF ~state.ok
          THEN [config_gen EXCEPT
                   !.ret = Ret(g, "verified_configs", state)]
          ELSE IF state.value.status = VerifiedConfigs
          THEN [config_gen EXCEPT
                   !.ret = Ret(g, "verified_configs", Ok(None))]
          ELSE [config_gen EXCEPT
                   !.state[g].status = VerifiedConfigs,
                   !.call[g] = [fn |-> "verified_configs",
                                pc |-> "update_leader", rpc |-> None,
                                leader |-> None]]
    /\ ClientUnchanged

\* ConfigGenApi::start_consensus: the config is sent to config_generated_tx,
\* and the call panics without one.
start_consensus(g) ==
    /\ config_gen.call[g] = NoCall
    /\ LET state == require_any_status(config_gen.state[g], VerifyStatuses)
           config == config_gen.state[g].config IN
       config_gen' =
          [config_gen EXCEPT
              !.ret = Ret(g, "start_consensus",
                          IF ~state.ok THEN state
                          ELSE IF ~config.some
                          THEN Err("panicked: Config should exist")
                          ELSE Ok(config))]
    /\ ClientUnchanged

\* Mutant: a request is authorized by the configured auth only.
has_auth_configured(state, auth) == state.auth = auth

\* has_auth of HasApiContext::context; auth 0 is None, in the state and in
\* the request.
has_auth(state, auth) ==
    IF state.auth = 0 THEN TRUE ELSE state.auth = auth

\* HasApiContext::context for a request with an auth: the endpoint context
\* that the handlers get.
context(g, auth) ==
    /\ config_gen' =
          [config_gen EXCEPT
              !.ret = Ret(g, "context",
                          Ok(Some([has_auth |->
                                      has_auth(config_gen.state[g], auth),
                                   auth |-> auth])))]
    /\ ClientUnchanged

\* update_leader of an admin call: without a leader url the call goes on,
\* with one the request to the leader is under way.
call_update_leader(g) ==
    /\ config_gen.call[g].pc = "update_leader"
    /\ LET rpc == UpdateLeaderRequest(g, config_gen.state[g]) IN
       config_gen' =
          IF rpc.some
          THEN [config_gen EXCEPT !.call[g].pc = "add_config_gen_peer",
                                  !.call[g].rpc = rpc]
          ELSE CallReturn(config_gen, g, Ok(None))
    /\ ClientUnchanged

\* The leader serves the add_config_gen_peer of an admin call's
\* update_leader, and the call goes on.
call_add_config_gen_peer(g) ==
    /\ config_gen.call[g].pc = "add_config_gen_peer"
    /\ config_gen' =
          CallReturn(add_config_gen_peer(config_gen,
                                         config_gen.call[g].rpc.value),
                     g, Ok(None))
    /\ ClientUnchanged

\* The leader cannot be reached by an admin call's update_leader.
call_leader_unreachable(g) ==
    /\ config_gen.call[g].pc = "add_config_gen_peer"
    /\ config_gen' =
          CallReturn(config_gen, g, Err("Unable to connect to the leader"))
    /\ ClientUnchanged

\* A task of a guardian at a place, and the state with the task replaced or
\* ended.
TasksAt(g, kind, pc) ==
    {t \in config_gen.tasks[g] : t.kind = kind /\ t.pc = pc}

TaskGoes(cg, g, t, next) ==
    [cg EXCEPT !.tasks[g] = (@ \ {t}) \cup {next}]

TaskEnds(cg, g, t) == [cg EXCEPT !.tasks[g] = @ \ {t}]

\* The DKG task of a follower polls the leader's status until it is
\* ReadyForConfigGen.
dkg_await_leader(g) ==
    /\ \E t \in TasksAt(g, "run dkg", "status") :
          /\ config_gen.state[t.leader.value].status = ReadyForConfigGen
          /\ config_gen' =
                TaskGoes(config_gen, g, t,
                         [t EXCEPT !.pc = "get_requested_params"])
    /\ ClientUnchanged

\* get_requested_params of the DKG task.
dkg_get_requested_params(g) ==
    /\ \E t \in TasksAt(g, "run dkg", "get_requested_params") :
          config_gen' =
             IF ~config_gen.state[g].requested_params.some
             THEN TaskEnds(config_gen, g, t)
             ELSE TaskGoes(config_gen, g, t,
                           [t EXCEPT
                               !.pc = "consensus_config_gen_params",
                               !.request =
                                   config_gen.state[g].requested_params])
    /\ ClientUnchanged

\* consensus_config_gen_params of the DKG task.
dkg_consensus_config_gen_params(g) ==
    /\ \E t \in TasksAt(g, "run dkg", "consensus_config_gen_params") :
          LET response == consensus_config_gen_params(g, config_gen,
                                                      t.request.value) IN
          config_gen' =
             IF ~response.ok
             THEN TaskEnds(config_gen, g, t)
             ELSE TaskGoes(config_gen, g, t,
                           [t EXCEPT
                               !.pc = "require_status",
                               !.consensus = Some(response.value.consensus)])
    /\ ClientUnchanged

\* The DKG task's require_status and get_config_gen_params.
dkg_get_config_gen_params(g) ==
    /\ \E t \in TasksAt(g, "run dkg", "require_status") :
          LET state == require_status(config_gen.state[g],
                                      ReadyForConfigGen)
              params == get_config_gen_params(g, config_gen.state[g],
                                              t.request.value,
                                              t.consensus.value) IN
          config_gen' =
             IF ~state.ok \/ ~params.ok
             THEN TaskEnds(config_gen, g, t)
             ELSE TaskGoes(config_gen, g, t,
                           [t EXCEPT !.pc = "distributed_gen",
                                     !.params = Some(params.value)])
    /\ ClientUnchanged

\* ServerConfig::distributed_gen comes back to the DKG task, with a config
\* or with an error, and the task sets the status.
dkg_distributed_gen(g, generated) ==
    /\ \E t \in TasksAt(g, "run dkg", "distributed_gen") :
          config_gen' =
             TaskGoes(
                IF generated
                THEN [config_gen EXCEPT
                         !.state[g].status = VerifyingConfigs,
                         !.state[g].config = Some(t.params.value)]
                ELSE [config_gen EXCEPT
                         !.state[g].status = ConfigGenFailed],
                g, t, [t EXCEPT !.pc = "update_leader"])
    /\ ClientUnchanged

\* The status of the leader that ends await_leader_restart.
LeaderHasRestarted(status) ==
    status \in {AwaitingPassword, SharingConfigGenParams}

\* Mutant: the statuses of the peers are not looked at.
AllPeersKnown(state) ==
    \A peer \in state.peers : peer.status.some

\* The peer table that ends await_peer_restart.
AllPeersRestarted(state) ==
    \A peer \in state.peers : peer.status = Some(SetupRestarted)

\* The restart task of a follower polls the leader's status.
await_leader_restart(g) ==
    /\ \E t \in TasksAt(g, "restart", "await") :
          /\ t.leader.some
          /\ LeaderHasRestarted(config_gen.state[t.leader.value].status)
          /\ config_gen' =
                TaskGoes(config_gen, g, t, [t EXCEPT !.pc = "reset"])
    /\ ClientUnchanged

\* The restart task of a guardian without a leader polls its peer table.
await_peer_restart(g) ==
    /\ \E t \in TasksAt(g, "restart", "await") :
          /\ ~t.leader.some
          /\ AllPeersRestarted(config_gen.state[g])
          /\ config_gen' =
                TaskGoes(config_gen, g, t, [t EXCEPT !.pc = "reset"])
    /\ ClientUnchanged

\* The restart task resets the state.
restart_reset(g) ==
    /\ \E t \in TasksAt(g, "restart", "reset") :
          config_gen' =
             TaskGoes([config_gen EXCEPT !.state[g] = reset(@),
                                         !.spawned[g] = 0],
                      g, t, [t EXCEPT !.pc = "update_leader"])
    /\ ClientUnchanged

\* update_leader of a task: without a leader url the task ends.
task_update_leader(g) ==
    /\ \E t \in {u \in config_gen.tasks[g] : u.pc = "update_leader"} :
          LET rpc == UpdateLeaderRequest(g, config_gen.state[g]) IN
          config_gen' =
             IF rpc.some
             THEN TaskGoes(config_gen, g, t,
                           [t EXCEPT !.pc = "add_config_gen_peer",
                                     !.rpc = rpc])
             ELSE TaskEnds(config_gen, g, t)
    /\ ClientUnchanged

\* The leader serves the add_config_gen_peer of a task's update_leader, and
\* the task ends.
task_add_config_gen_peer(g) ==
    /\ \E t \in {u \in config_gen.tasks[g] : u.pc = "add_config_gen_peer"} :
          config_gen' =
             TaskEnds(add_config_gen_peer(config_gen, t.rpc.value), g, t)
    /\ ClientUnchanged

(***************************************************************************)
(* Specifications.                                                         *)
(***************************************************************************)
InitDb ==
    /\ oplog = [o \in Ops |-> NoEntry]
    /\ active = {}
    /\ inactive = {}
    /\ calls = [p \in Procs |-> IdleCall]
    /\ exec = ExecOff
    /\ config_gen = ConfigGenOff(FALSE)

\* The operation log and the executor under manual_operation_start and
\* module_autocommit closures; no action reads the funds or the fee.
Init ==
    /\ InitDb
    /\ funds = 0
    /\ tx_fee = 0
    /\ cf = CfOff
    /\ ctx = CtxOff

Next ==
    \/ \E p \in Procs : manual_operation_start(p)
    \/ \E p \in Procs : manual_operation_start_commit(p)
    \/ \E p \in Procs :
          module_autocommit(p, AutocommitKinds \ {"add_funds"}, {0})
    \/ \E p \in Procs : autocommit_closure(p)
    \/ \E p \in Procs : autocommit_commit(p)
    \/ executor_transition

Spec == Init /\ [][Next]_vars

\* Concurrent relays of incoming payments through
\* finalize_and_submit_transaction.
InitRelay ==
    /\ InitDb
    /\ funds \in 0 .. MaxFunds
    /\ tx_fee \in 0 .. MaxFee
    /\ cf = CfOff
    /\ ctx = CtxOff

NextRelay ==
    \/ \E p \in Procs : relay_incoming_htlc(p)
    \/ \E p \in Procs : relay_direct_swap(p)
    \/ \E p \in Procs : finalize_and_submit_transaction(p)
    \/ \E p \in Procs : finalize_commit(p)
    \/ executor_transition

SpecRelay == InitRelay /\ [][NextRelay]_vars

\* One transaction of the dummy module, balanced by the primary module.
NextTx ==
    \/ dummy_tx(1)
    \/ finalize_and_submit_transaction(1)
    \/ finalize_commit(1)
    \/ executor_transition
    \/ get_operation_call

SpecTx == InitRelay /\ [][NextTx]_vars

\* create_final_inputs_and_outputs as a function of its inputs.
InitFund ==
    /\ InitDb
    /\ funds = 0
    /\ tx_fee = 0
    /\ cf \in [pc : {"call"}, our_funds : CfAmounts, input_amount : CfAmounts,
               output_amount : CfAmounts, r : {CfOff.r}]
    /\ ctx = CtxOff

NextFund == create_final_call

SpecFund == InitFund /\ [][NextFund]_vars

\* The executor's process driving the state machines that
\* manual_operation_start seeds.
NextExec ==
    \/ \E p \in Procs : manual_operation_start(p)
    \/ \E p \in Procs : manual_operation_start_commit(p)
    \/ await_resolves
    \/ apply_transition
    \/ shutdown
    \/ crash
    \/ restart

SpecExec == Init /\ [][NextExec]_vars

\* The calls of the client on the type-erased primary module.
InitIso ==
    /\ InitDb
    /\ funds = 0
    /\ tx_fee = 0
    /\ cf = CfOff
    /\ ctx \in IsoCalls

NextIso == iclient_module_call

SpecIso == InitIso /\ [][NextIso]_vars

\* Typed values through make_dyn and from_dyn.
InitDyn ==
    /\ InitDb
    /\ funds = 0
    /\ tx_fee = 0
    /\ cf = CfOff
    /\ ctx \in DynCalls

NextDyn ==
    \/ make_dyn_call
    \/ from_dyn_call

SpecDyn == InitDyn /\ [][NextDyn]_vars

\* Concurrent module_autocommit calls.
NextAuto ==
    \/ \E p \in Procs :
          module_autocommit(p, AutocommitKinds \ {"add_operation_log_entry"},
                            AttemptLimits)
    \/ \E p \in Procs : autocommit_closure(p)
    \/ \E p \in Procs : autocommit_commit(p)

SpecAuto == Init /\ [][NextAuto]_vars

\* Concurrent writers of the funds row, each in a module_autocommit; every
\* writer's closure and commit get to run.
NextWriters ==
    \/ \E p \in Procs : module_autocommit(p, {"add_funds"}, AttemptLimits)
    \/ \E p \in Procs : autocommit_closure(p)
    \/ \E p \in Procs : autocommit_commit(p)

SpecWriters ==
    /\ Init
    /\ [][NextWriters]_vars
    /\ \A p \in Procs : WF_vars(autocommit_closure(p))
    /\ \A p \in Procs : WF_vars(autocommit_commit(p))

\* Concurrent module_autocommit_2 calls.
NextAuto2 ==
    \/ \E p \in Procs :
          module_autocommit_2(p,
                              AutocommitKinds \ {"add_operation_log_entry"},
                              AttemptLimits)
    \/ \E p \in Procs : autocommit_closure(p)
    \/ \E p \in Procs : autocommit_commit(p)

SpecAuto2 == Init /\ [][NextAuto2]_vars

\* Callers of a module's ClientContext while the client is built, used and
\* dropped; the log holds the entries of earlier operations.
InitClient ==
    /\ oplog \in [Ops -> {NoEntry, OperationLogEntry(LightningKind, "manual", 1)}]
    /\ active = {}
    /\ inactive = {}
    /\ calls = [p \in Procs |-> IdleCall]
    /\ exec = ExecOff
    /\ config_gen = ConfigGenOff(FALSE)
    /\ funds = 0
    /\ tx_fee = 0
    /\ cf = CfOff
    /\ ctx = ClientUnset

NextClient ==
    \/ FinalClient_set
    \/ client_handle_clone
    \/ client_handle_drop
    \/ \E p \in Procs : operation_exists(p)
    \/ \E p \in Procs : operation_exists_return(p)

SpecClient == InitClient /\ [][NextClient]_vars

\* A caller waiting for an output of the primary module while transactions
\* are finalized and the state machines of the primary module run.
InitPrimary ==
    /\ InitDb
    /\ funds = MaxFunds
    /\ tx_fee = 0
    /\ cf = CfOff
    /\ ctx = PrimaryOff(funds)

NextPrimary ==
    \/ primary_finalize
    \/ dummy_transition
    \/ await_primary_module_output(1)
    \/ await_primary_module_output_next(1)

SpecPrimary == InitPrimary /\ [][NextPrimary]_vars

\* The same, the waiting caller polling its stream.
SpecPrimaryFair ==
    /\ SpecPrimary
    /\ WF_vars(await_primary_module_output_next(1))

\* Concurrent send_payment calls while the executor drives the Send state
\* machines.
InitSend ==
    /\ InitDb
    /\ funds = 0
    /\ tx_fee = 0
    /\ cf = CfOff
    /\ ctx = SendOff

NextSend ==
    \/ \E p \in Procs : send_payment(p)
    \/ \E p \in Procs : send_payment_start(p)
    \/ \E p \in Procs : send_payment_commit(p)
    \/ send_transition
    \/ \E p \in Procs : subscribe_send_next(p)

SpecSend == InitSend /\ [][NextSend]_vars

\* The runtime goes on with every call that is under way, the executor with
\* every state machine that has a transition, and a stream that holds a state
\* yields it.
SpecSendFair ==
    /\ SpecSend
    /\ WF_vars(send_transition)
    /\ \A p \in Procs :
          /\ WF_vars(send_payment_start(p))
          /\ WF_vars(send_payment_commit(p))
          /\ WF_vars(subscribe_send_next(p))

\* A subscriber of the notifier while the executor drives the state machines
\* of a relayed incoming payment.
NextNotify ==
    \/ relay_incoming_htlc(1)
    \/ finalize_and_submit_transaction(1)
    \/ finalize_commit(1)
    \/ await_resolves
    \/ apply_transition
    \/ subscribe
    \/ subscriber_next
    \/ subscriber_lags

SpecNotify == InitRelay /\ [][NextNotify]_vars

\* Fair scheduling of the executor, awaits that resolve, and a process that
\* is started again after it was killed.
SpecExecFair ==
    /\ SpecExec
    /\ WF_vars(await_resolves)
    /\ WF_vars(apply_transition)
    /\ WF_vars(restart)

\* The guardians from their new states; the client is idle.
InitConfigGen ==
    /\ oplog = [o \in Ops |-> NoEntry]
    /\ active = {}
    /\ inactive = {}
    /\ calls = [p \in Procs |-> IdleCall]
    /\ exec = ExecOff
    /\ funds = 0
    /\ tx_fee = 0
    /\ cf = CfOff
    /\ ctx = CtxOff
    /\ config_gen = ConfigGenOff(FALSE)

\* The steps of the admin calls that update the leader.
NextUpdateLeader ==
    \/ \E g \in Guardians : call_update_leader(g)
    \/ \E g \in Guardians : call_add_config_gen_peer(g)
    \/ \E g \in Guardians : call_leader_unreachable(g)

\* The steps of the DKG tasks.
NextDkgTask ==
    \/ \E g \in Guardians : dkg_await_leader(g)
    \/ \E g \in Guardians : dkg_get_requested_params(g)
    \/ \E g \in Guardians : dkg_consensus_config_gen_params(g)
    \/ \E g \in Guardians : dkg_get_config_gen_params(g)
    \/ \E g \in Guardians, ok \in BOOLEAN : dkg_distributed_gen(g, ok)
    \/ \E g \in Guardians : task_update_leader(g)
    \/ \E g \in Guardians : task_add_config_gen_peer(g)

\* The steps of the restart tasks.
NextRestartTask ==
    \/ \E g \in Guardians : await_leader_restart(g)
    \/ \E g \in Guardians : await_peer_restart(g)
    \/ \E g \in Guardians : restart_reset(g)

\* The leader and one follower set passwords, with and without one in the
\* request, and restart the setup before they have named a leader.
LeaderAndFollower == {Leader, MaxGuardians}

NextPassword ==
    \/ \E g \in LeaderAndFollower, auth \in 0 .. MaxAuth :
          set_password(g, auth)
    \/ \E g \in LeaderAndFollower : restart_federation_setup(g)
    \/ \E g \in LeaderAndFollower : call_update_leader(g)
    \/ \E g \in LeaderAndFollower : await_peer_restart(g)
    \/ \E g \in LeaderAndFollower : restart_reset(g)
    \/ \E g \in LeaderAndFollower : task_update_leader(g)

SpecPassword == InitConfigGen /\ [][NextPassword]_vars

\* The leader and one follower set a password and run the DKG without having
\* set their params; the follower also registers and restarts the setup.
NextRunDkg ==
    \/ \E g \in LeaderAndFollower : set_password(g, 1)
    \/ set_config_gen_connections(MaxGuardians, 0)
    \/ \E g \in LeaderAndFollower : run_dkg(g)
    \/ restart_federation_setup(MaxGuardians)
    \/ NextUpdateLeader
    \/ \E g \in LeaderAndFollower : dkg_await_leader(g)
    \/ \E g \in LeaderAndFollower : dkg_get_requested_params(g)
    \/ NextRestartTask
    \/ \E g \in LeaderAndFollower : task_update_leader(g)
    \/ \E g \in LeaderAndFollower : task_add_config_gen_peer(g)

SpecRunDkg == InitConfigGen /\ [][NextRunDkg]_vars

\* The guardians register under names of their choice, set their params and
\* ask for the consensus params; the peer ids are
\* sorted by name or, with FM_PEER_ID_SORT_BY_URL set, by url.
InitPeers ==
    /\ oplog = [o \in Ops |-> NoEntry]
    /\ active = {}
    /\ inactive = {}
    /\ calls = [p \in Procs |-> IdleCall]
    /\ exec = ExecOff
    /\ funds = 0
    /\ tx_fee = 0
    /\ cf = CfOff
    /\ ctx = CtxOff
    /\ config_gen \in {ConfigGenOff(s) : s \in BOOLEAN}

NextPeers ==
    \/ \E g \in Guardians : set_password(g, 1)
    \/ \E g \in Guardians, name \in Names :
          set_config_gen_connections(g, name)
    \/ \E g \in Guardians :
          set_config_gen_params(g, ConfigGenParamsRequest(g, TRUE))
    \/ \E g \in Guardians : get_consensus_config_gen_params(g)
    \/ NextUpdateLeader

SpecPeers == InitPeers /\ [][NextPeers]_vars

\* The guardians register, set params with and without the module's, ask for
\* the consensus params and run the DKG.
NextParams ==
    \/ \E g \in Guardians : set_password(g, 1)
    \/ \E g \in Guardians : set_config_gen_connections(g, 0)
    \/ \E g \in Guardians : \E r \in ParamsRequests(g) :
          set_config_gen_params(g, r)
    \/ \E g \in Guardians : get_consensus_config_gen_params(g)
    \/ \E g \in Guardians : run_dkg(g)
    \/ NextUpdateLeader
    \/ NextDkgTask

SpecParams == InitConfigGen /\ [][NextParams]_vars

\* The state of a guardian that has set its password, registered under a
\* name and set its params; the leader lists the follower with the status of
\* the follower's last update_leader.
GuardianSetUp(g, status) ==
    [set_request(g, ConfigGenState_new, 0, <<g, 1>>) EXCEPT
        !.auth = 1,
        !.status = status,
        !.requested_params = Some(ConfigGenParamsRequest(g, TRUE)),
        !.peers = IF g = Leader /\ MaxGuardians # Leader
                  THEN {PeerServerParams(<<MaxGuardians, 1>>, MaxGuardians, 0,
                                         Some(status))}
                  ELSE {}]

\* The leader and one follower after their setup, with nothing in flight.
SetUp(status) ==
    [ConfigGenOff(FALSE) EXCEPT
        !.state = [g \in Guardians |->
                      IF g \in LeaderAndFollower
                      THEN GuardianSetUp(g, status)
                      ELSE ConfigGenState_new],
        !.certs = [g \in Guardians |->
                      IF g \in LeaderAndFollower THEN 1 ELSE 0]]

\* The DKG task of a guardian that is in distributed_gen.
DkgTaskRunning(g) ==
    LET cg == SetUp(ReadyForConfigGen)
        request == ConfigGenParamsRequest(g, TRUE)
        consensus == consensus_config_gen_params(g, cg, request).value
                        .consensus IN
    [Task("run dkg", 1, "distributed_gen", LeaderClient(cg.state[g])) EXCEPT
        !.request = Some(request),
        !.consensus = Some(consensus),
        !.params = Some(get_config_gen_params(g, cg.state[g], request,
                                              consensus).value)]

\* The guardians after their setup: sharing their params, or in
\* ReadyForConfigGen with their DKG tasks in distributed_gen.
AfterSetup(dkg) ==
    IF ~dkg
    THEN [SetUp(SharingConfigGenParams) EXCEPT
             !.ret = Ret(MaxGuardians, "set_config_gen_params", Ok(None))]
    ELSE [SetUp(ReadyForConfigGen) EXCEPT
             !.ret = Ret(MaxGuardians, "run_dkg", Ok(None)),
             !.tasks = [g \in Guardians |->
                           IF g \in LeaderAndFollower
                           THEN {DkgTaskRunning(g)} ELSE {}],
             !.task_ids = [g \in Guardians |->
                              IF g \in LeaderAndFollower THEN 1 ELSE 0],
             !.spawned = [g \in Guardians |->
                             IF g \in LeaderAndFollower THEN 1 ELSE 0]]

InitRestart ==
    /\ oplog = [o \in Ops |-> NoEntry]
    /\ active = {}
    /\ inactive = {}
    /\ calls = [p \in Procs |-> IdleCall]
    /\ exec = ExecOff
    /\ funds = 0
    /\ tx_fee = 0
    /\ cf = CfOff
    /\ ctx = CtxOff
    /\ config_gen \in {AfterSetup(dkg) : dkg \in BOOLEAN}

\* The leader and one follower restart the setup after it, while their DKG
\* tasks, if they have any, go on; the leader can be reached.
NextRestart ==
    \/ \E g \in LeaderAndFollower : restart_federation_setup(g)
    \/ \E g \in LeaderAndFollower : call_update_leader(g)
    \/ \E g \in LeaderAndFollower : call_add_config_gen_peer(g)
    \/ \E g \in LeaderAndFollower, ok \in BOOLEAN :
          dkg_distributed_gen(g, ok)
    \/ \E g \in LeaderAndFollower : task_update_leader(g)
    \/ \E g \in LeaderAndFollower : task_add_config_gen_peer(g)
    \/ NextRestartTask

SpecRestart == InitRestart /\ [][NextRestart]_vars

\* The runtime goes on with every call that is under way and with every
\* spawned task; the polls of the restart tasks are repeated.
SpecRestartFair ==
    /\ SpecRestart
    /\ \A g \in LeaderAndFollower :
          /\ WF_vars(call_update_leader(g))
          /\ WF_vars(call_add_config_gen_peer(g))
          /\ WF_vars(\E ok \in BOOLEAN : dkg_distributed_gen(g, ok))
          /\ WF_vars(task_update_leader(g))
          /\ WF_vars(task_add_config_gen_peer(g))
          /\ WF_vars(await_leader_restart(g))
          /\ WF_vars(await_peer_restart(g))
          /\ WF_vars(restart_reset(g))

\* Requests with and without an auth come to the leader and one follower
\* while they set passwords and restart the setup.
NextAuth ==
    \/ \E g \in LeaderAndFollower, auth \in 0 .. MaxAuth : context(g, auth)
    \/ NextPassword

SpecAuth == InitConfigGen /\ [][NextAuth]_vars

\* The leader and one follower call every operation of the setup in every
\* status it goes through, while the restart tasks and the DKG tasks that
\* are in distributed_gen go on; the leader can fail to be reached.
NextStatus ==
    \/ \E g \in LeaderAndFollower : set_config_gen_connections(g, 0)
    \/ \E g \in LeaderAndFollower :
          set_config_gen_params(g, ConfigGenParamsRequest(g, TRUE))
    \/ \E g \in LeaderAndFollower : run_dkg(g)
    \/ \E g \in LeaderAndFollower : verify_config_hash(g)
    \/ \E g \in LeaderAndFollower : verified_configs(g)
    \/ \E g \in LeaderAndFollower : start_consensus(g)
    \/ \E g \in LeaderAndFollower : call_leader_unreachable(g)
    \/ NextRestart

SpecStatus == InitRestart /\ [][NextStatus]_vars

(***************************************************************************)
(* Properties.                                                             *)
(***************************************************************************)
Persisted == active \cup inactive

IsManual(c) == c.kind = "manual_operation_start"

\* C1: a manual_operation_start call whose operation id has a log entry, at
\* its begin or at its commit, ends with the operation-exists error and
\* leaves the log, the state sets and the funds as they were.
C1_RepeatedStartRejected ==
    [][\A p \in Procs :
          (calls'[p] # calls[p] /\ IsManual(calls'[p])
              /\ operation_exists_dbtx(Database, calls'[p].op))
          => (/\ calls'[p].pc = "done"
              /\ calls'[p].res = "OperationExists"
              /\ DbUnchanged)]_vars

C1_Witness ==
    \E p \in Procs, q \in Procs :
        /\ p # q
        /\ IsManual(calls[p]) /\ IsManual(calls[q])
        /\ calls[p].op = calls[q].op
        /\ calls[q].res = "Ok"
        /\ calls[p].res = "OperationExists"
        /\ calls[p].sms # {}
        /\ oplog[calls[p].op] = OperationLogEntry(LightningKind, "manual", q)
        /\ calls[p].sms \cap Persisted = {}

\* C2: the operation log is write-once per operation id: an entry, once
\* committed, is never replaced by a later write under the same id.
C2_WriteOnce ==
    [][\A op \in Ops : oplog[op] # NoEntry => oplog'[op] = oplog[op]]_vars

\* The seed states of a call that no other call passes.
HasOwnSeeds(p) ==
    /\ IsManual(calls[p])
    /\ calls[p].sms = {DynState(calls[p].op, "Send", p, 0)}

LogEntryWritten(p) == calls[p].res = "Ok" /\ oplog[calls[p].op] # NoEntry

\* The state machine of seed s is persisted, as s or as a successor of s.
MachinePersisted(s) ==
    \E t \in Persisted : t.op = s.op /\ t.kind = s.kind /\ t.tx = s.tx

\* C3 as stated: in every committed state the log entry of a
\* manual_operation_start call exists if and only if the seed states of the
\* call are in the active set.
C3_LogIffSeedsActive ==
    \A p \in Procs :
        HasOwnSeeds(p) => (LogEntryWritten(p) <=> calls[p].sms \subseteq active)

\* C3, amended: the log entry and the seed states are committed together. The
\* commit of a call either writes its log entry and inserts all its seeds
\* into the active set or changes nothing, and in every committed state the
\* call's entry was written if and only if each of its seeds is persisted,
\* as the seed or as a successor the executor replaced it with.
C3_LogAndSeedsTogether ==
    /\ [](\A p \in Procs :
            HasOwnSeeds(p) =>
                /\ LogEntryWritten(p)
                      <=> (\A s \in calls[p].sms : MachinePersisted(s))
                /\ calls[p].res # "Ok"
                      => oplog[calls[p].op]
                            # OperationLogEntry(LightningKind, "manual", p))
    /\ [][\A p \in Procs :
            (calls[p].pc = "manual_commit" /\ calls'[p].pc = "done")
            => IF calls'[p].res = "Ok"
               THEN /\ oplog'[calls[p].op]
                          = OperationLogEntry(LightningKind, "manual", p)
                    /\ calls[p].sms \subseteq active'
                    /\ calls[p].sms \cap active = {}
               ELSE DbUnchanged]_vars

C3_Witness ==
    \E p \in Procs :
        /\ HasOwnSeeds(p)
        /\ LogEntryWritten(p)
        /\ calls[p].sms \cap active = {}
        /\ \A s \in calls[p].sms : MachinePersisted(s)

IsFinalize(c) == c.kind \in FinalizeKinds

\* The primary module's contributions have been appended to the transaction.
Appended(c) ==
    IsFinalize(c)
        /\ (c.pc = "finalize_commit" \/ c.res \in {"Ok", "AssertUnbalanced"})

\* C4: once the primary module's contributions are appended, the input
\* amounts plus input fees equal the output amounts plus output fees, the
\* contributions counted with their own amounts and fees.
C4_BalancedAfterFinalize ==
    \A p \in Procs : Appended(calls[p]) => calls[p].fin_in = calls[p].fin_out

\* C5: create_final_inputs_and_outputs returns inputs worth exactly the
\* deficit and no outputs when in_sum < out_sum and the funds suffice,
\* outputs worth exactly the surplus and no inputs when in_sum > out_sum, and
\* nothing when the sums are equal.
C5_ContributionsCoverDifference ==
    cf.pc = "ret" =>
        /\ (cf.input_amount < cf.output_amount
              /\ cf.our_funds >= cf.output_amount - cf.input_amount)
           => /\ ~cf.r.err
              /\ Len(cf.r.inputs) > 0
              /\ SumSeq(cf.r.inputs) = cf.output_amount - cf.input_amount
              /\ cf.r.outputs = <<>>
        /\ cf.input_amount > cf.output_amount
           => /\ ~cf.r.err
              /\ Len(cf.r.outputs) > 0
              /\ SumSeq(cf.r.outputs) = cf.input_amount - cf.output_amount
              /\ cf.r.inputs = <<>>
        /\ cf.input_amount = cf.output_amount
           => /\ ~cf.r.err
              /\ cf.r.inputs = <<>>
              /\ cf.r.outputs = <<>>

C5_Witness ==
    /\ cf.pc = "ret"
    /\ 0 < cf.input_amount
    /\ cf.input_amount < cf.output_amount
    /\ cf.r.inputs = <<cf.output_amount - cf.input_amount>>

\* C6: create_final_inputs_and_outputs fails exactly when in_sum < out_sum
\* and the stored funds are smaller than out_sum - in_sum.
C6_ErrorIffFundsShort ==
    cf.pc = "ret" =>
        (cf.r.err <=> (/\ cf.input_amount < cf.output_amount
                       /\ cf.our_funds < cf.output_amount - cf.input_amount))

C6_Witness ==
    /\ cf.pc = "ret"
    /\ cf.r.err
    /\ cf.our_funds > 0

\* The funds do not cover the deficit of the call's transaction.
CannotFund(c) ==
    /\ c.input_amount < c.output_amount
    /\ funds < c.output_amount - c.input_amount

\* C7: a submission whose deficit the primary module cannot fund fails with
\* insufficient funds and persists nothing: the funds are unchanged, no log
\* entry is written and no state machine is added.
C7_UnderfundedPersistsNothing ==
    /\ [][\A p \in Procs :
            (/\ calls[p].pc = "finalize"
             /\ calls'[p] # calls[p]
             /\ ~operation_exists_dbtx(Database, calls[p].op)
             /\ CannotFund(calls[p]))
            => (/\ calls'[p].pc = "done"
                /\ calls'[p].res = "InsufficientFunds"
                /\ DbUnchanged)]_vars
    /\ [](\A p \in Procs :
            calls[p].res = "InsufficientFunds"
            => /\ oplog[calls[p].op]
                     # OperationLogEntry(OperationType(calls[p].kind), "tx", p)
               /\ \A s \in Persisted : s.tx # p)

C7_Witness ==
    \E p \in Procs :
        /\ calls[p].res = "InsufficientFunds"
        /\ funds = 0
        /\ oplog[calls[p].op] = NoEntry
        /\ Persisted = {}

IsRelay(c) == c.kind \in RelayKinds

\* The transaction of caller p was handed to the executor for submission.
Submitted(p) ==
    \E s \in Persisted : s.kind = "TxSubmission" /\ s.tx = p

\* C8: of the relays of one payload at most one submits a transaction and
\* seeds state machines; once one has succeeded every other finished relay
\* of the payload was skipped by the gate or rejected as existing.
C8_OneTransactionPerPayload ==
    \A p \in Procs, q \in Procs :
        (/\ p # q
         /\ IsRelay(calls[p]) /\ IsRelay(calls[q])
         /\ calls[p].payload = calls[q].payload)
        => /\ ~(Submitted(p) /\ Submitted(q))
           /\ ~(calls[p].res = "Ok" /\ calls[q].res = "Ok")
           /\ (calls[p].res = "Ok" /\ calls[q].pc = "done")
              => calls[q].res \in {"GateSkipped", "OperationExists"}
           /\ calls[p].res = "Ok"
              => /\ Submitted(p)
                 /\ \A s \in Persisted : s.tx = q => s.op # calls[p].op

C8_Witness ==
    \E p \in Procs, q \in Procs :
        /\ p # q
        /\ calls[p].kind = "relay_incoming_htlc"
        /\ calls[q].kind = "relay_direct_swap"
        /\ calls[p].payload = calls[q].payload
        /\ calls[p].res = "Ok"
        /\ calls[q].res = "OperationExists"
        /\ Submitted(p)

\* C9: no state is in the active set and in the inactive set at once.
C9_ActiveInactiveDisjoint == active \cap inactive = {}

C9_Witness ==
    /\ active # {}
    /\ inactive # {}
    /\ \E s \in inactive : s.stage > 0

\* C10: a transition removes the prior state and inserts its successor in
\* one step: a state that leaves the active set is replaced by its
\* successor, and a successor never appears while its prior state stays.
C10_TransitionAtomic ==
    [][\A s \in active :
          LET n == Successor(s) IN
          /\ s \notin active' => n \in active' \cup inactive'
          /\ (n \notin Persisted /\ n \in active' \cup inactive')
             => s \notin active']_vars

C10_Witness ==
    /\ \E s \in active : s.stage = 1
    /\ \E s \in inactive : s.stage = 1

\* The states a state machine can be in.
MachineStates ==
    {DynState(op, kind, tx, stage) :
        op \in Ops, kind \in {"Send", "Complete"}, tx \in 0 .. MaxProcs,
        stage \in 0 .. 2}

\* The state machine of s has reached a terminal state, kept in the inactive
\* set.
MachineInactive(s) ==
    \E n \in inactive : n.op = s.op /\ n.kind = s.kind /\ n.tx = s.tx

\* C11: under fair scheduling and awaits that resolve, the state machine of
\* every state inserted into the active set eventually has its terminal
\* state in the inactive set, unless the process is shut down first; a crash
\* followed by a restart does not prevent it.
C11_ActiveEventuallyInactive ==
    \A s \in MachineStates :
        [](s \in active => <>(MachineInactive(s) \/ exec.shutdown))

C11_Witness ==
    /\ exec.crashes > 0
    /\ exec.running
    /\ ~exec.shutdown
    /\ exec.at_crash # {}
    /\ active = {}
    /\ \A s \in exec.at_crash : MachineInactive(s)

\* How often a transition was applied to state s.
AppliedCount(s) ==
    Cardinality({i \in DOMAIN exec.applied : exec.applied[i].s = s})

\* C12: the active set the executor reads at a restart is the active set of
\* the last commit before the crash, and a state that was active at the
\* crash has a transition applied exactly once after the restart: never
\* twice, the prior state removed and the successor put into the active or
\* the inactive set, and once unless the process is shut down first.
C12_CrashRestartExactlyOnce ==
    /\ []((exec.crashes > 0 /\ exec.running)
            => exec.observed = exec.at_crash)
    /\ [](\A s \in MachineStates : AppliedCount(s) <= 1)
    /\ [][exec'.applied # exec.applied =>
            LET w == exec'.applied[Len(exec'.applied)] IN
            /\ w.s \in active
            /\ w.s \notin active'
            /\ SuccessorOf(w.s, w.t) \in active' \cup inactive']_vars
    /\ \A s \in MachineStates :
          (exec.running /\ s \in exec.at_crash /\ s \in active)
              ~> (AppliedCount(s) = 1 \/ exec.shutdown)

C12_Witness ==
    /\ exec.crashes > 0
    /\ exec.running
    /\ exec.observed # {}
    /\ \E s \in exec.at_crash :
          /\ AppliedCount(s) = 1
          /\ s \notin active
          /\ \E t \in Transitions(s) : SuccessorOf(s, t) \in inactive

\* The transitions of the state of w that lost the race to w.
Losers(w) == {Race(w.s, u) : u \in Transitions(w.s) \ {w.t}}

\* C13: of the transitions a state offers only the one whose await resolves
\* first is applied. When an await resolves the awaits of the other
\* transitions of the state are cancelled; a cancelled await never wins and
\* its apply never runs; the successor persisted is the winner's and not a
\* loser's; and no state has more than one transition applied.
C13_FirstWins ==
    /\ [](/\ exec.won \cap exec.cancelled = {}
          /\ \A w \in exec.won, x \in exec.won : w.s = x.s => w = x
          /\ \A w \in exec.won : Losers(w) \subseteq exec.cancelled
          /\ \A s \in MachineStates : AppliedCount(s) <= 1)
    /\ [][exec'.applied # exec.applied =>
            LET w == exec'.applied[Len(exec'.applied)] IN
            /\ w \in exec.won
            /\ w \notin exec.cancelled
            /\ Losers(w) \subseteq exec.cancelled
            /\ SuccessorOf(w.s, w.t) \in active' \cup inactive'
            /\ \A l \in Losers(w) :
                  SuccessorOf(l.s, l.t) \notin active' \cup inactive']_vars

C13_Witness ==
    \E i \in DOMAIN exec.applied :
        LET w == exec.applied[i] IN
        /\ w.t = 2
        /\ Race(w.s, 1) \in exec.cancelled
        /\ SuccessorOf(w.s, 2) \in inactive
        /\ SuccessorOf(w.s, 1) \notin inactive

\* The successors persisted for the subscriber's operation id since it
\* subscribed, in the order in which their transitions were applied.
PersistedSince(sub) ==
    LET OfOp(w) == w.s.op = sub.op
        ws == SelectSeq(SubSeq(exec.applied, sub.from + 1, Len(exec.applied)),
                        OfOp)
    IN [i \in DOMAIN ws |-> SuccessorOf(ws[i].s, ws[i].t)]

\* What the subscriber has observed or still has in its stream.
Delivered(sub) == sub.seen \o sub.buffer

RECURSIVE IsSubseq(_, _)
IsSubseq(a, b) ==
    IF a = <<>> THEN TRUE
    ELSE IF b = <<>> THEN FALSE
    ELSE IF Head(a) = Head(b) THEN IsSubseq(Tail(a), Tail(b))
    ELSE IsSubseq(a, Tail(b))

AddsStateMachines(c) == c.kind = "add_state_machines"

\* C15: add_state_machines_dbtx is all-or-nothing. A batch with a state that
\* is already in the active or the inactive set, or that does not decode,
\* is answered with an error and nothing is written; no state of a rejected
\* batch is ever inserted by that call, be it from a module_autocommit
\* closure or from manual_operation_start.
C15_BatchAllOrNothing ==
    /\ [][\A p \in Procs :
            (/\ calls[p].pc = "autocommit"
             /\ AddsStateMachines(calls[p])
             /\ calls'[p] # calls[p]
             /\ ~AddStateMachinesOk(Database, calls[p].sms))
            => (/\ calls'[p].pc = "done"
                /\ calls'[p].res = "ClosureError"
                /\ DbUnchanged)]_vars
    /\ [][\A p \in Procs :
            (/\ calls[p].pc = "idle"
             /\ IsManual(calls'[p])
             /\ ~operation_exists_dbtx(Database, calls'[p].op)
             /\ ~AddStateMachinesOk(Database, calls'[p].sms))
            => (/\ calls'[p].pc = "done"
                /\ calls'[p].res = "PanicStateMachineInvalid"
                /\ DbUnchanged)]_vars
    /\ [](\A p \in Procs :
            calls[p].res \in {"ClosureError", "PanicStateMachineInvalid"}
            => \A s \in calls[p].sms : s.tx = p => ~MachinePersisted(s))

C15_Witness ==
    \E p \in Procs :
        /\ AddsStateMachines(calls[p])
        /\ calls[p].res = "ClosureError"
        /\ \E s \in calls[p].sms : s \in Persisted
        /\ \E s \in calls[p].sms :
              s.kind = "Send" /\ s.tx = p /\ ~MachinePersisted(s)

IsAutocommit(c) == c.kind \in AutocommitKinds

\* C16: module_autocommit runs the closure again on a fresh transaction
\* after each failed commit; with a limit it runs the closure at most
\* max_attempts times and then returns CommitFailed with that number of
\* attempts; an error of the closure ends the call at once as ClosureError,
\* with no commit and no further run.
C16_RetryUntilLimit ==
    /\ [](\A p \in Procs : IsAutocommit(calls[p]) =>
            /\ calls[p].max_attempts # 0
                  => calls[p].attempts <= calls[p].max_attempts
            /\ calls[p].res = "CommitFailed"
                  => /\ calls[p].max_attempts # 0
                     /\ calls[p].attempts = calls[p].max_attempts)
    /\ [][\A p \in Procs :
            (calls[p].pc = "autocommit_commit" /\ calls'[p] # calls[p]
                /\ ~CommitSucceeds(calls[p]))
            => /\ DbUnchanged
               /\ calls'[p].attempts = calls[p].attempts
               /\ IF calls[p].max_attempts # 0
                     /\ calls[p].attempts >= calls[p].max_attempts
                  THEN calls'[p].pc = "done" /\ calls'[p].res = "CommitFailed"
                  ELSE /\ calls'[p].pc = "autocommit"
                       /\ calls'[p].snap = NoSnapshot
                       /\ calls'[p].w = NoWrites]_vars
    /\ [][\A p \in Procs :
            (calls[p].pc = "autocommit" /\ calls'[p] # calls[p])
            => /\ calls'[p].attempts = calls[p].attempts + 1
               /\ DbUnchanged
               /\ (AddsStateMachines(calls[p])
                      /\ ~AddStateMachinesOk(Database, calls[p].sms))
                  => calls'[p].pc = "done" /\ calls'[p].res = "ClosureError"]_vars
    /\ [][\A p \in Procs :
            calls[p].pc = "done" => calls'[p] = calls[p]]_vars

C16_Witness ==
    \E p \in Procs, q \in Procs :
        /\ calls[p].res = "CommitFailed"
        /\ calls[p].attempts = calls[p].max_attempts
        /\ calls[q].res = "Ok"
        /\ calls[q].kind = "add_funds"
        /\ funds = 1

\* A writer of the funds row with a commutative closure and no attempt
\* limit.
UnlimitedWriter(c) == c.kind = "add_funds" /\ c.max_attempts = 0

Committed(p) == calls[p].kind = "add_funds" /\ calls[p].res = "Ok"

\* C17: every concurrent autocommit writer of the funds row that has no
\* attempt limit eventually commits, exactly once, and the row holds one
\* unit for every commit that succeeded: no update is lost, so K writers
\* without a limit end with K commits and a row that reflects all K.
C17_NoLostUpdate ==
    /\ \A p \in Procs : [](UnlimitedWriter(calls[p]) => <>Committed(p))
    /\ [](funds = Cardinality({p \in Procs : Committed(p)}))
    /\ [][\A p \in Procs : Committed(p) => calls'[p] = calls[p]]_vars

C17_Witness ==
    /\ \A p \in Procs : UnlimitedWriter(calls[p]) /\ Committed(p)
    /\ \E p \in Procs : calls[p].attempts > 1
    /\ funds = MaxProcs

IsIsoCall ==
    ctx.pc = "ret"
        /\ ctx.fn \in {"create_final_inputs_and_outputs", "get_balance"}

\* C18: the typed create_final_inputs_and_outputs and get_balance, called
\* through the type-erased IClientModule, work on a transaction isolated to
\* the prefix of the module instance passed: ensure_isolated passes, the
\* funds read are that instance's, and no row under another prefix is read
\* or written.
C18_IsolatedToInstance ==
    IsIsoCall =>
        LET own == <<ctx.module_instance>> IN
        /\ ~ctx.ret.panic
        /\ ensure_isolated(ctx.ret.dbtx)
        /\ ctx.ret.dbtx.prefix = own
        /\ ctx.ret.dbtx.touched \subseteq {own}
        /\ \A k \in Prefixes \ {own} : ctx.ret.dbtx.kv[k] = ctx.kv[k]
        /\ ctx.fn = "get_balance" => ctx.ret.balance = ctx.kv[own]
        /\ ctx.fn = "create_final_inputs_and_outputs"
              => ctx.ret.r = create_final_inputs_and_outputs(
                                 ctx.kv[own], ctx.input_amount,
                                 ctx.output_amount)

C18_Witness ==
    /\ IsIsoCall
    /\ ctx.fn = "create_final_inputs_and_outputs"
    /\ ctx.module_instance = 2
    /\ ctx.kv[<<2>>] = 1
    /\ ctx.kv[<<1>>] = 1
    /\ ctx.ret.dbtx.kv[<<2>>] = 0
    /\ ctx.ret.dbtx.kv[<<1>>] = 1
    /\ ctx.ret.dbtx.touched = {<<2>>}

IsDynCall == ctx.fn \in {"input", "output"}

\* C20: make_dyn_input and make_dyn_output of a ClientContext tag the typed
\* value with the context's instance id; input_from_dyn and output_from_dyn
\* of the context of instance i return a value exactly when the dyn value's
\* instance id is i; and what they return for a dyn value the same context
\* made is the typed value it was made from.
C20_DynRoundTrip ==
    /\ (ctx.pc \in {"from", "ret"} /\ IsDynCall)
          => /\ ctx.d.module_instance_id = ctx.maker
             /\ ctx.d.value = ctx.x
    /\ (ctx.pc = "ret" /\ IsDynCall)
          => /\ ctx.ret.some <=> ctx.d.module_instance_id = ctx.module_instance
             /\ ctx.maker = ctx.module_instance => ctx.ret = Some(ctx.x)

C20_Witness ==
    /\ ctx.pc = "ret"
    /\ IsDynCall
    /\ ctx.maker # ctx.module_instance
    /\ InstanceKind(ctx.maker) = InstanceKind(ctx.module_instance)
    /\ ctx.ret = None

IsGetOperation == ctx.pc = "ret" /\ ctx.fn = "get_operation"

\* C19: get_operation returns an error when the operation log has no entry
\* for the operation id, an error when the entry's module kind is not the
\* kind of the calling module, and the entry otherwise.
C19_GetOperationByKind ==
    [][(ctx' # ctx /\ ctx'.pc = "ret" /\ ctx'.fn = "get_operation") =>
          LET entry == oplog[ctx'.operation_id] IN
          /\ entry = NoEntry => ~ctx'.ret.ok
          /\ (entry # NoEntry /\ entry.kind # ctx'.kind) => ~ctx'.ret.ok
          /\ (entry # NoEntry /\ entry.kind = ctx'.kind)
                => ctx'.ret = Ok(entry)
          /\ DbUnchanged]_vars

C19_Witness ==
    /\ IsGetOperation
    /\ oplog[ctx.operation_id] # NoEntry
    /\ oplog[ctx.operation_id].kind = DummyKind
    /\ ctx.kind = LightningKind
    /\ ~ctx.ret.ok

IsAutocommit2(c) == c.wrap = "module_autocommit_2"

\* C21: module_autocommit_2 returns the closure's value when the commit
\* succeeds, returns the closure's own error, unchanged, when the closure
\* fails, and panics when the commit fails with the attempts used up: it
\* never returns CommitFailed or ClosureError.
C21_Autocommit2Results ==
    /\ [](\A p \in Procs : IsAutocommit2(calls[p]) =>
            /\ calls[p].res \in {"none", "Ok", "Err", "Panic"}
            /\ calls[p].res = "Panic"
                  => /\ calls[p].max_attempts # 0
                     /\ calls[p].attempts = calls[p].max_attempts)
    /\ [][\A p \in Procs :
            (IsAutocommit2(calls[p]) /\ calls[p].pc = "autocommit_commit"
                /\ calls'[p] # calls[p])
            => IF CommitSucceeds(calls[p])
               THEN /\ calls'[p].pc = "done"
                    /\ calls'[p].res = "Ok"
                    /\ calls'[p].error = "none"
                    /\ calls'[p].value = calls[p].value
                    /\ calls[p].kind = "add_funds"
                          => calls'[p].value = funds'
               ELSE /\ DbUnchanged
                    /\ IF calls[p].max_attempts # 0
                          /\ calls[p].attempts >= calls[p].max_attempts
                       THEN calls'[p].pc = "done" /\ calls'[p].res = "Panic"
                       ELSE calls'[p].pc = "autocommit"]_vars
    /\ [][\A p \in Procs :
            (IsAutocommit2(calls[p]) /\ calls[p].pc = "autocommit"
                /\ calls'[p] # calls[p] /\ AddsStateMachines(calls[p])
                /\ ~AddStateMachinesOk(Database, calls[p].sms))
            => /\ calls'[p].pc = "done"
               /\ calls'[p].res = "Err"
               /\ calls'[p].error
                     = AddStateMachinesError(Database, calls[p].sms)
               /\ calls'[p].value = -1
               /\ DbUnchanged]_vars

C21_Witness ==
    \E p \in Procs, q \in Procs :
        /\ IsAutocommit2(calls[p]) /\ IsAutocommit2(calls[q])
        /\ calls[p].res = "Panic"
        /\ calls[q].res = "Ok"
        /\ calls[q].kind = "add_funds"
        /\ calls[q].value = 1
        /\ funds = 1

\* The client is shut down: the cell is set and no strong handle is left.
ClientShutDown == ctx.set /\ StrongCount = 0

\* C22: a ClientContext call made after the owning client was shut down
\* returns an error to its caller, and does not panic.
C22_CleanErrorPastShutdown ==
    [][\A p \in Procs :
        (ClientShutDown /\ calls[p].pc = "idle" /\ calls'[p] # calls[p])
        => calls'[p].pc = "done" /\ calls'[p].res = "Err"]_vars

IsAwaitPrimary(c) == c.kind = "await_primary_module_output"

\* The funds the primary module holds by its state machines: the funds at
\* the start, less the inputs it spent, plus the outputs it was credited.
RECURSIVE CreditedFunds(_)
CreditedFunds(ops) ==
    IF ops = {} THEN ctx.funds0
    ELSE LET op == CHOOSE o \in ops : TRUE
             s == ctx.sm[op] IN
         CreditedFunds(ops \ {op})
            + (IF s.variant = "OutputDone" THEN s.amount ELSE 0)
            - (IF s.variant \in {"Input", "InputDone"} THEN s.amount ELSE 0)

\* The caller waits for the output the primary module made for its
\* operation.
AwaitsPrimaryOutput(p) ==
    /\ IsAwaitPrimary(calls[p])
    /\ ctx.sm[calls[p].op].origin = "Output"
    /\ calls[p].payload = ctx.out_idx[calls[p].op]

\* The stream holds a state of the variant.
Delivers(stream, variant) ==
    \E i \in DOMAIN stream : stream[i].variant = variant

IsSendPayment(c) == c.kind = "send_payment"

\* The Send state machine of caller p was started.
SendStarted(p) == \E s \in Persisted : s.kind = "Send" /\ s.tx = p

\* The log entry of caller p was written.
SendLogged(p) == \E op \in Ops : oplog[op].type = "manual" /\ oplog[op].by = p

\* C24: of the send_payment calls with one outgoing contract, sequential or
\* concurrent, at most one starts a Send state machine and writes a log
\* entry, every operation id has at most one Send state machine, and a log
\* entry once written stays; a call that finds the operation existing
\* writes nothing and goes on to subscribe to the operation's states.
C24_OneSendPerContract ==
    /\ [](\A p \in Procs, q \in Procs :
            (/\ p # q
             /\ IsSendPayment(calls[p]) /\ IsSendPayment(calls[q])
             /\ calls[p].payload = calls[q].payload)
            => /\ ~(SendStarted(p) /\ SendStarted(q))
               /\ ~(SendLogged(p) /\ SendLogged(q)))
    /\ [](\A op \in Ops :
            Cardinality({s \in Persisted : s.op = op /\ s.kind = "Send"}) <= 1)
    /\ [](\A p \in Procs : IsSendPayment(calls[p]) =>
            /\ SendStarted(p) <=> SendLogged(p)
            /\ SendStarted(p) <=> calls[p].res = "Ok"
            /\ calls[p].res \in {"Exists", "OperationExists"}
                  => calls[p].w = NoWrites)
    /\ [][\A op \in Ops : oplog[op] # NoEntry => oplog'[op] = oplog[op]]_vars
    /\ [][\A p \in Procs :
            (calls[p].pc \in {"idle", "send_confirm", "send_commit"}
                /\ calls'[p] # calls[p] /\ IsSendPayment(calls'[p])
                /\ operation_exists_dbtx(Database, calls'[p].op))
            => /\ DbUnchanged
               /\ calls'[p].pc = "subscribe_send"
                     \/ (calls'[p].pc = "done" /\ calls'[p].res = "Err")
               /\ ctx'.stream[p] = <<>>]_vars

C24_Witness ==
    \E p \in Procs, q \in Procs :
        /\ p # q
        /\ IsSendPayment(calls[p]) /\ IsSendPayment(calls[q])
        /\ calls[p].payload = calls[q].payload
        /\ calls[p].res = "Ok" /\ calls[p].pc = "done" /\ calls[p].value > 0
        /\ calls[q].res = "OperationExists" /\ calls[q].attempts = 0
        /\ calls[q].pc = "subscribe_send"
        /\ SendStarted(p) /\ ~SendStarted(q)

\* C25: set_password succeeds only while the status is AwaitingPassword, and
\* then stores the auth and moves the status to SharingConfigGenParams; any
\* other set_password returns an error and leaves the guardian's state as it
\* was; and a guardian is in AwaitingPassword only without a stored auth, so
\* that a second set_password needs a setup restart in between.
SetPasswordStep(g, auth) ==
    /\ config_gen'.ret.ok =
          (auth # 0 /\ config_gen.state[g].status = AwaitingPassword)
    /\ config_gen'.ret.ok =>
          /\ config_gen'.state[g].auth = auth
          /\ config_gen'.state[g].status = SharingConfigGenParams
    /\ ~config_gen'.ret.ok =>
          config_gen'.state[g] = config_gen.state[g]

C25_PasswordSetOnce ==
    /\ [](\A g \in Guardians :
            config_gen.state[g].status = AwaitingPassword
               => config_gen.state[g].auth = 0)
    /\ [][\A g \in Guardians, auth \in 0 .. MaxAuth :
             set_password(g, auth) => SetPasswordStep(g, auth)]_vars

C25_Witness ==
    /\ config_gen.ret.fn = "set_password"
    /\ ~config_gen.ret.ok
    /\ config_gen.ret.err = "Expected to be in AwaitingPassword state"
    /\ config_gen.state[config_gen.ret.g].auth # 0
    /\ config_gen.state[config_gen.ret.g].status = SharingConfigGenParams

\* C26: run_dkg goes on only in status SharingConfigGenParams, which it
\* leaves for ReadyForConfigGen; in any other status it returns an error and
\* changes nothing; a DKG task is spawned only by a run_dkg that returns Ok;
\* and a guardian spawns at most one DKG task between two resets of its state.
RunDkgStep(g) ==
    IF config_gen.state[g].status = SharingConfigGenParams
    THEN /\ config_gen'.state[g].status = ReadyForConfigGen
         /\ config_gen'.call[g].fn = "run_dkg"
         /\ config_gen'.tasks = config_gen.tasks
    ELSE /\ config_gen'.ret.fn = "run_dkg"
         /\ config_gen'.ret.g = g
         /\ ~config_gen'.ret.ok
         /\ config_gen'.state = config_gen.state
         /\ config_gen'.tasks = config_gen.tasks
         /\ config_gen'.call = config_gen.call

DkgTasks(cg, g) == {t.id : t \in {u \in cg.tasks[g] : u.kind = "run dkg"}}

DkgSpawnStep(g) ==
    /\ config_gen.call[g].fn = "run_dkg"
    /\ config_gen'.ret = Ret(g, "run_dkg", Ok(None))
    /\ config_gen'.spawned[g] = config_gen.spawned[g] + 1

C26_RunDkgOnce ==
    /\ [](\A g \in Guardians : config_gen.spawned[g] <= 1)
    /\ [][\A g \in Guardians :
             /\ run_dkg(g) => RunDkgStep(g)
             /\ ~(DkgTasks(config_gen', g) \subseteq DkgTasks(config_gen, g))
                   => DkgSpawnStep(g)]_vars

C26_Witness ==
    /\ config_gen.ret.fn = "run_dkg"
    /\ ~config_gen.ret.ok
    /\ config_gen.ret.err = "Expected to be in SharingConfigGenParams state"
    /\ config_gen.state[config_gen.ret.g].status = ReadyForConfigGen
    /\ config_gen.spawned[config_gen.ret.g] = 1
    /\ config_gen.restarts[config_gen.ret.g] = 1

\* C27: a peer table holds at most one entry per api_url; add_config_gen_peer
\* puts its peer in the place of the entry of the same api_url and leaves the
\* other entries alone; and when a follower's set_config_gen_connections
\* returns Ok, the leader lists the follower once, with the name and the
\* certificate the follower has now.
ListedAs(cg, leader, g) == {e \in cg.state[leader].peers : e.api_url = g}

AddPeerStep(g) ==
    LET rpc == config_gen.call[g].rpc.value IN
    /\ ListedAs(config_gen', rpc.to, rpc.peer.api_url) = {rpc.peer}
    /\ \A e \in config_gen.state[rpc.to].peers :
          e.api_url # rpc.peer.api_url
             => e \in config_gen'.state[rpc.to].peers
    /\ config_gen'.state[rpc.to].peers
          \subseteq config_gen.state[rpc.to].peers \cup {rpc.peer}

ConnectionsOkStep(g) ==
    LET local == config_gen'.state[g].local.value IN
    /\ config_gen.call[g].fn = "set_config_gen_connections"
    /\ config_gen'.call[g] = NoCall
    /\ config_gen'.ret.ok
    /\ local.leader_api_url.some
    => \E e \in config_gen'.state[local.leader_api_url.value].peers :
          /\ ListedAs(config_gen', local.leader_api_url.value, g) = {e}
          /\ e.name = local.our_name
          /\ e.cert = local.tls_cert

C27_OneEntryPerUrl ==
    /\ [](\A g \in Guardians : \A e, f \in config_gen.state[g].peers :
            e.api_url = f.api_url => e = f)
    /\ [][\A g \in Guardians :
             /\ call_add_config_gen_peer(g) => AddPeerStep(g)
             /\ ConnectionsOkStep(g)]_vars

C27_Witness ==
    \E g \in Guardians \ {Leader} :
       /\ config_gen.ret = Ret(g, "set_config_gen_connections", Ok(None))
       /\ config_gen.call[g] = NoCall
       /\ config_gen.certs[g] = 2
       /\ \E e \in config_gen.state[Leader].peers :
             /\ ListedAs(config_gen, Leader, g) = {e}
             /\ e.cert = <<g, 2>>
             /\ e.name = MaxName

\* C28: get_peer_info lists every registered peer and the guardian itself
\* once, in the order of their lower-cased names or, with
\* FM_PEER_ID_SORT_BY_URL set, of their urls, and numbers them 0 .. n-1; and
\* the our_current_id values that consensus_config_gen_params gives to
\* different guardians for the same peer table are different, also when the
\* guardians use the same name.
PeerInfoOf(g) == get_peer_info(g, config_gen.state[g], config_gen.sort_by_url)

PeerInfoNumbersAll(g) ==
    LET info == PeerInfoOf(g) IN
    /\ {info[i] : i \in DOMAIN info}
          = config_gen.state[g].peers
               \cup (IF config_gen.state[g].local.some
                     THEN {our_peer_info(g, config_gen.state[g]).value}
                     ELSE {})
    /\ \A i, j \in DOMAIN info : info[i] = info[j] => i = j
    /\ {PeerId(i) : i \in DOMAIN info} = 0 .. (Len(info) - 1)

CurrentIdOf(g) == consensus_config_gen_params_endpoint(g, config_gen)

CurrentIdsDiffer ==
    \A g, h \in Guardians :
       /\ g # h
       /\ CurrentIdOf(g).ok
       /\ CurrentIdOf(h).ok
       => CurrentIdOf(g).value.our_current_id
             # CurrentIdOf(h).value.our_current_id

C28_PeerIdsDistinct ==
    /\ \A g \in Guardians :
          /\ PeerInfoNumbersAll(g)
          /\ \A i, j \in DOMAIN PeerInfoOf(g) :
                i < j => PeerSortKey(PeerInfoOf(g)[i], config_gen.sort_by_url)
                            <= PeerSortKey(PeerInfoOf(g)[j],
                                           config_gen.sort_by_url)
    /\ CurrentIdsDiffer

\* The statement as it was made: the peers are numbered in the order of their
\* lower-cased names.
C28_NumberedByName ==
    \A g \in Guardians : \A i, j \in DOMAIN PeerInfoOf(g) :
       i < j => to_lowercase(PeerInfoOf(g)[i].name)
                   <= to_lowercase(PeerInfoOf(g)[j].name)

C28_Witness ==
    \E g \in Guardians \ {Leader} :
       /\ CurrentIdOf(g).ok
       /\ CurrentIdOf(Leader).ok
       /\ config_gen.state[g].local.value.our_name
             = config_gen.state[Leader].local.value.our_name
       /\ Len(PeerInfoOf(Leader)) = 2
       /\ config_gen.ret.fn = "consensus_config_gen_params"
       /\ config_gen.ret.ok
       /\ config_gen.ret.g = g

\* C29: the consensus params that consensus_config_gen_params gives to a
\* guardian are those it gives to the leader for the same state of the
\* leader; and the params a guardian's DKG task uses have the leader's meta,
\* a peer list with the leader's own entry and the guardian's certificate,
\* the consensus part of the module params from the leader's request or, when
\* that leaves the module out, from the default, and the local part from the
\* guardian's own request or the default. A follower's own meta and consensus
\* module params are not among them.
SameConsensusAsLeader ==
    \A g \in Guardians :
       CurrentIdOf(g).ok
          => /\ CurrentIdOf(Leader).ok
             /\ CurrentIdOf(g).value.consensus
                   = CurrentIdOf(Leader).value.consensus

DkgParamsFromLeader(g, t) ==
    LET consensus == t.params.value.consensus
        request == t.request.value IN
    /\ consensus.meta = ConfigGenParamsRequest(Leader, TRUE).meta
    /\ consensus.peers = t.consensus.value.peers
    /\ \E i \in DOMAIN consensus.peers :
          consensus.peers[i].api_url = Leader
    /\ consensus.peers[t.params.value.local.our_id + 1].api_url = g
    /\ consensus.modules.value.consensus
          = IF t.consensus.value.modules.some
            THEN ConfigGenParamsRequest(Leader, TRUE).modules.value.consensus
            ELSE DefaultModuleParams.consensus
    /\ consensus.modules.value.local
          = IF request.modules.some
            THEN ConfigGenParamsRequest(g, TRUE).modules.value.local
            ELSE DefaultModuleParams.local
    /\ t.consensus.value.meta = config_gen.state[Leader].requested_params.value.meta
    /\ t.consensus.value.modules
          = config_gen.state[Leader].requested_params.value.modules

C29_LeaderConsensusParams ==
    /\ SameConsensusAsLeader
    /\ \A g \in Guardians : \A t \in config_gen.tasks[g] :
          t.params.some => DkgParamsFromLeader(g, t)
    /\ \A g \in Guardians :
          config_gen.state[g].config.some
             => /\ config_gen.state[g].config.value.consensus.meta
                      = ConfigGenParamsRequest(Leader, TRUE).meta
                /\ g # Leader
                      => config_gen.state[g].config.value.consensus.modules
                            .value.consensus
                            # ConfigGenParamsRequest(g, TRUE).modules
                                 .value.consensus

C29_Witness ==
    \E g \in Guardians \ {Leader} :
       /\ config_gen.state[g].status = VerifyingConfigs
       /\ config_gen.state[g].requested_params
             = Some(ConfigGenParamsRequest(g, TRUE))
       /\ config_gen.state[g].config.value.consensus.modules
             = Some([local |-> g, consensus |-> Leader])
       /\ config_gen.state[Leader].config.some
       /\ config_gen.state[Leader].config.value.consensus.modules
             = Some([local |-> Leader, consensus |-> Leader])

\* C30: restart_federation_setup sets the status SetupRestarted, the reset of
\* a restart task leaves the guardian in AwaitingPassword without config,
\* peers, auth, requested params and local connection, and once the leader
\* and the follower have both called restart_federation_setup, the restart
\* task of each of them comes to its end.
RestartCalled(g) ==
    /\ config_gen.restarts[g] >= 1
    /\ config_gen.call[g] = NoCall

RestartTasks(g) == {t \in config_gen.tasks[g] : t.kind = "restart"}

C30_RestartReachesAwaitingPassword ==
    /\ [][\A g \in LeaderAndFollower :
             /\ config_gen'.restarts[g] > config_gen.restarts[g]
                   => config_gen'.state[g].status = SetupRestarted
             /\ restart_reset(g)
                   => config_gen'.state[g] = ConfigGenState_new]_vars
    /\ (\A g \in LeaderAndFollower : RestartCalled(g))
          ~> (\A g \in LeaderAndFollower :
                /\ RestartTasks(g) = {}
                /\ config_gen.state[g].status = AwaitingPassword)

\* C31: a restart task comes to its reset only by a poll that found what it
\* waits for: the task of a guardian without a leader found every peer of
\* its table with the status SetupRestarted, the task of a follower found
\* the leader in AwaitingPassword or SharingConfigGenParams; and only the
\* reset of a restart task takes a guardian to AwaitingPassword.
AtReset(cg, g) == {t.id : t \in {u \in cg.tasks[g] : u.pc = "reset"}}

ComesToReset(g) ==
    \A t \in config_gen'.tasks[g] :
       t.pc = "reset" /\ t.id \notin AtReset(config_gen, g)
          => /\ t.kind = "restart"
             /\ \E u \in config_gen.tasks[g] :
                   u.id = t.id /\ u.kind = "restart" /\ u.pc = "await"
             /\ IF t.leader.some
                THEN config_gen.state[t.leader.value].status
                        \in {AwaitingPassword, SharingConfigGenParams}
                ELSE \A peer \in config_gen.state[g].peers :
                        peer.status = Some(SetupRestarted)

C31_ResetAfterPeersRestarted ==
    [][\A g \in Guardians :
          /\ ComesToReset(g)
          /\ config_gen.state[g].status # AwaitingPassword
                /\ config_gen'.state[g].status = AwaitingPassword
                => /\ AtReset(config_gen, g) # {}
                   /\ AtReset(config_gen', g) # AtReset(config_gen, g)
                   /\ config_gen'.state[g] = ConfigGenState_new]_vars

C31_Witness ==
    /\ config_gen.state[Leader].status = AwaitingPassword
    /\ config_gen.state[MaxGuardians].status = AwaitingPassword
    /\ config_gen.restarts[Leader] = 1
    /\ config_gen.restarts[MaxGuardians] = 1
    /\ \A g \in LeaderAndFollower : config_gen.tasks[g] = {}

\* The last call was the call of g to fn, it returned an error of one of the
\* kinds, and no guardian's state, call or task changed.
Rejected(g, fn, kinds) ==
    /\ config_gen'.ret.g = g
    /\ config_gen'.ret.fn = fn
    /\ ~config_gen'.ret.ok
    /\ ErrorKind(config_gen'.ret.err) \in kinds
    /\ config_gen'.state = config_gen.state
    /\ config_gen'.call = config_gen.call
    /\ config_gen'.tasks = config_gen.tasks

RestartStatuses ==
    {SharingConfigGenParams, ReadyForConfigGen, ConfigGenFailed,
     VerifyingConfigs, VerifiedConfigs}

\* The operations but set_config_gen_params, called in a status they do not
\* permit, return a bad-request error and change nothing.
RejectedOutOfStatus(g) ==
    LET status == config_gen.state[g].status IN
    /\ status # SharingConfigGenParams /\ set_config_gen_connections(g, 0)
          => Rejected(g, "set_config_gen_connections", {"bad_request"})
    /\ status # SharingConfigGenParams /\ run_dkg(g)
          => Rejected(g, "run_dkg", {"bad_request"})
    /\ status \notin VerifyStatuses /\ verify_config_hash(g)
          => Rejected(g, "verify_config_hash", {"bad_request"})
    /\ status \notin VerifyStatuses /\ verified_configs(g)
          => Rejected(g, "verified_configs", {"bad_request"})
    /\ status \notin VerifyStatuses /\ start_consensus(g)
          => Rejected(g, "start_consensus", {"bad_request"})
    /\ status \notin RestartStatuses /\ restart_federation_setup(g)
          => Rejected(g, "restart_federation_setup", {"bad_request"})

SetParamsOutOfStatus(g) ==
    /\ config_gen.state[g].status # SharingConfigGenParams
    /\ set_config_gen_params(g, ConfigGenParamsRequest(g, TRUE))

\* C32: an operation of the setup called in a status it does not permit
\* returns an error and leaves every guardian's state, calls and tasks as
\* they were; the error is a bad request, but for set_config_gen_params,
\* which asks the leader for its params before it looks at the status and
\* returns not-found when the leader has none.
C32_OutOfStatusRejected ==
    [][\A g \in LeaderAndFollower :
          /\ RejectedOutOfStatus(g)
          /\ SetParamsOutOfStatus(g)
                => Rejected(g, "set_config_gen_params",
                            {"bad_request", "not_found"})]_vars

\* A follower that has restarted asks for params the leader, back in
\* AwaitingPassword, no longer has.
C32_Witness ==
    /\ config_gen.ret = Ret(MaxGuardians, "set_config_gen_params",
                            Err("Cannot get leader params"))
    /\ config_gen.state[MaxGuardians].status = SetupRestarted
    /\ config_gen.state[Leader].status = AwaitingPassword

\* C32 as stated: every operation called out of its statuses returns a bad
\* request.
C32_AlwaysBadRequest ==
    [][\A g \in LeaderAndFollower :
          /\ RejectedOutOfStatus(g)
          /\ SetParamsOutOfStatus(g)
                => Rejected(g, "set_config_gen_params", {"bad_request"})]_vars

\* C33: the status of a guardian becomes VerifyingConfigs or ConfigGenFailed
\* from ReadyForConfigGen only, and a config is stored in ReadyForConfigGen
\* only: the result of a DKG that comes after a restart does not replace
\* SetupRestarted or AwaitingPassword and puts no config into a reset state.
C33_DkgResultOnlyInReady ==
    [][\A g \in Guardians :
          LET before == config_gen.state[g]
              after == config_gen'.state[g] IN
          /\ after.status \in {VerifyingConfigs, ConfigGenFailed}
                /\ after.status # before.status
                => before.status = ReadyForConfigGen
          /\ after.config.some /\ after.config # before.config
                => before.status = ReadyForConfigGen]_vars

\* C34: a guardian in VerifyingConfigs or VerifiedConfigs has a generated
\* config stored, so that start_consensus does not panic with 'Config should
\* exist' and verify_config_hash does not return 'Missing config'.
C34_ConfigStoredWhileVerifying ==
    /\ \A g \in Guardians :
          config_gen.state[g].status \in {VerifyingConfigs, VerifiedConfigs}
             => config_gen.state[g].config.some
    /\ config_gen.ret.err
          \notin {"Missing config", "panicked: Config should exist"}

\* start_consensus has sent the stored config of a guardian that has
\* verified its configs.
C34_Witness ==
    /\ config_gen.ret.fn = "start_consensus"
    /\ config_gen.ret.ok
    /\ config_gen.state[config_gen.ret.g].status = VerifiedConfigs
    /\ config_gen.state[config_gen.ret.g].config.some
    /\ config_gen.ret.value = config_gen.state[config_gen.ret.g].config

\* A run_dkg call of g that has passed its status check returns an error.
RunDkgFails(g) ==
    /\ config_gen.call[g].fn = "run_dkg"
    /\ config_gen'.call[g] = NoCall
    /\ config_gen'.ret.g = g
    /\ config_gen'.ret.fn = "run_dkg"
    /\ ~config_gen'.ret.ok

\* C35: when run_dkg returns an error, the guardian has the status it had
\* before the call, SharingConfigGenParams for a call that passed the status
\* check, and no DKG task was spawned: a leader that cannot be reached does
\* not leave the guardian in ReadyForConfigGen without a DKG task.
C35_FailedRunDkgKeepsStatus ==
    [][\A g \in Guardians :
          RunDkgFails(g)
             => /\ config_gen'.state[g].status = SharingConfigGenParams
                /\ DkgTasks(config_gen', g) = DkgTasks(config_gen, g)]_vars

\* C36: while a guardian has an auth configured, a request is authorized if
\* and only if it carries that auth; while it has none, before set_password
\* and after reset, every request is authorized, also one without an auth.
C36_AuthorizedByConfiguredAuth ==
    [][\A g \in LeaderAndFollower, auth \in 0 .. MaxAuth :
          context(g, auth)
             => LET configured == config_gen.state[g].auth
                    authorized == config_gen'.ret.value.value.has_auth IN
                IF configured \in 1 .. MaxAuth
                THEN authorized <=> auth = configured
                ELSE authorized]_vars

\* After its reset a guardian authorizes a request with an auth that was
\* not its own, while the other guardian has a password.
C36_Witness ==
    LET g == config_gen.ret.g IN
    /\ config_gen.ret.fn = "context"
    /\ config_gen.restarts[g] = 1
    /\ config_gen.state[g].status = AwaitingPassword
    /\ config_gen.state[g].auth = 0
    /\ config_gen.ret.value.value = [has_auth |-> TRUE, auth |-> MaxAuth]
    /\ config_gen.state[MaxGuardians + Leader - g].auth = 1

\* The Send state machine of an operation has reached Claiming or Cancelled
\* and the state is persisted.
SendOutcome(op) ==
    {s \in Persisted : s.op = op /\ s.kind = "Send" /\ s.stage > 0}

\* A send_payment call that found the operation existing subscribes after
\* the outcome was persisted.
RepeatedSend(p) ==
    /\ IsSendPayment(calls[p])
    /\ calls[p].pc = "subscribe_send"
    /\ calls[p].res = "Exists"
    /\ SendOutcome(calls[p].op) # {}

\* The call has returned the outcome of its operation: the preimage for
\* Claiming, the forfeit signature for Cancelled.
ReturnedOutcome(p) ==
    /\ calls[p].pc = "done"
    /\ \E s \in SendOutcome(calls[p].op) :
          calls[p].error = IF s.stage = 1 THEN "none" ELSE "Signature"

\* C37: a send_payment call repeated for a contract whose Send state machine
\* has reached Claiming or Cancelled eventually returns the outcome of the
\* first call, the preimage or the forfeit signature, although it subscribes
\* after the state was persisted.
C37_RepeatedSendReturns ==
    \A p \in Procs : RepeatedSend(p) ~> ReturnedOutcome(p)

\* The deficit of a funding request: what the primary module has to put in.
Deficit(c) ==
    IF c.input_amount < c.output_amount
    THEN c.output_amount - c.input_amount ELSE 0

\* The transaction of the call of p commits.
FundingCommits(p) ==
    /\ calls[p].pc = "finalize_commit"
    /\ calls'[p].pc = "done"
    /\ calls'[p].res = "Ok"

RECURSIVE CommittedDeficits(_)
CommittedDeficits(ps) ==
    IF ps = {} THEN 0
    ELSE LET p == CHOOSE q \in ps : TRUE IN
         (IF calls[p].pc = "done" /\ calls[p].res = "Ok"
          THEN Deficit(calls[p]) ELSE 0) + CommittedDeficits(ps \ {p})

\* C38: concurrent funding requests on one balance do not spend more than
\* the balance: the stored funds are never below zero, each call that
\* commits lowers them by exactly its deficit, which they covered, nothing
\* else changes them, and the deficits of the committed calls together with
\* the funds left are no more than the largest balance there was to start
\* from.
C38_FundsNotOverspent ==
    /\ [](funds >= 0)
    /\ [](funds + CommittedDeficits(Procs) <= MaxFunds)
    /\ [][\A p \in Procs :
             FundingCommits(p)
                => /\ Deficit(calls[p]) <= funds
                   /\ funds' = funds - Deficit(calls[p])]_vars
    /\ [][funds' # funds => \E p \in Procs : FundingCommits(p)]_vars

\* Of two requests that the balance could have funded one at a time, one
\* has committed and used the balance up, and the other one has failed.
C38_Witness ==
    \E p \in Procs, q \in Procs :
        /\ p # q
        /\ calls[p].pc = "done" /\ calls[p].res = "Ok"
        /\ Deficit(calls[p]) = MaxFunds
        /\ calls[q].pc = "done" /\ calls[q].res = "InsufficientFunds"
        /\ Deficit(calls[q]) \in 1 .. MaxFunds
        /\ funds = 0

====
